---- MODULE Spec2Model ----
(***************************************************************************)
(* Shard connection lifecycle and session management of the gateway        *)
(* client: Session state (shard/processor/session.rs), Socket Forwarder    *)
(* (shard/processor/socket_forwarder.rs), close codes (close_code.rs),     *)
(* resume seeds (cluster/impl.rs, shard/config.rs) and the Shard's driving *)
(* loop as described in spec.md section 4.4; Latency (latency.rs),         *)
(* ShardBuilder (shard/builder.rs), Cluster (cluster/impl.rs),             *)
(* InMemoryCache (twilight-cache-inmemory) and EventTypeFlags (event.rs).  *)
(***************************************************************************)
EXTENDS Integers, Sequences, FiniteSets, TLC

\* ------------------------------------------------------------------------
\* Bounds of the model
\* ------------------------------------------------------------------------
MaxCycles == 2      \* connection attempts of the Shard
MaxFrames == 5      \* frames the socket delivers over the whole run
MaxDispatch == 3    \* Dispatch frames among them
MaxSeq == 3         \* largest sequence number the server puts in a frame
MaxInbound == 2     \* frames waiting in the forwarder -> shard channel
MaxInterval == 1200 \* the rate-limit function is applied to every interval up to it
MaxSets == 2        \* set_heartbeat_interval calls on one Session
MaxWire == 3        \* frames waiting in a Session's outbound channel
MaxClock == 3       \* milliseconds the latency clock runs
MaxBeats == 6       \* acknowledgements tracked by one Latency
MaxDue == 4         \* times a heartbeat is due
MaxTasks == 4       \* heartbeater tasks spawned for one Session
MaxShards == 3      \* largest shard id and shard total given to a builder or Cluster
MaxEvents == 2      \* events each shard of a Cluster emits
MaxQueued == 1      \* frames waiting in the channel of a shard of a Cluster
MaxRelay == 3       \* frames a Socket Forwarder is given in each direction
MaxIdle == 2        \* ticks of the clock that make up SocketForwarder::TIMEOUT
MaxMessages == 3   \* messages created in one InMemoryCache between two clears
MaxBusy == 2       \* frames a Session keeps waiting in a busy outbound channel
MaxVoice == 3      \* users connected to one voice channel

\* ------------------------------------------------------------------------
\* Option<T>: None is the empty set, Some(x) the singleton
\* ------------------------------------------------------------------------
None == {}
Some(x) == {x}
unwrap(o) == CHOOSE x \in o : TRUE

SessionIds == {1}
HelloIntervals == {42500}

\* ------------------------------------------------------------------------
\* Session (shard/processor/session.rs)
\* ------------------------------------------------------------------------
RESET_DURATION_MILLISECONDS == 60000
COMMANDS_PER_RESET == 120
ALLOT_ON_FAIL == COMMANDS_PER_RESET - 10
U8_MAX == 255

saturating_sub(a, b) == IF a >= b THEN a - b ELSE 0

\* heartbeats per reset period: the quotient, plus one if there is a remainder
heartbeats_per_reset(heartbeat_interval) ==
    LET quot == RESET_DURATION_MILLISECONDS \div heartbeat_interval
        remainder == RESET_DURATION_MILLISECONDS % heartbeat_interval
    IN IF remainder > 0 THEN quot + 1 ELSE quot

\* variant: the remainder does not reserve an additional heartbeat
heartbeats_converted_floor(heartbeat_interval) ==
    LET heartbeats == RESET_DURATION_MILLISECONDS \div heartbeat_interval
    IN IF heartbeats <= U8_MAX THEN heartbeats ELSE ALLOT_ON_FAIL

\* heartbeats.try_into() to u8, ALLOT_ON_FAIL when it does not fit
heartbeats_converted(heartbeat_interval) ==
    LET heartbeats == heartbeats_per_reset(heartbeat_interval)
    IN IF heartbeats <= U8_MAX THEN heartbeats ELSE ALLOT_ON_FAIL

\* fn available_commands_per_interval(heartbeat_interval: u64) -> u8, the
\* value it returns when the u8 multiplication wraps
available_commands_per_interval(heartbeat_interval) ==
    saturating_sub(COMMANDS_PER_RESET,
                   (heartbeats_converted(heartbeat_interval) * 2) % (U8_MAX + 1))

\* the outcomes of a call: it panicked, or it returned a value
Panic == [kind |-> "panic", value |-> 0]
Ok(v) == [kind |-> "ok", value |-> v]

\* what a call of available_commands_per_interval can do: it panics on the
\* division by zero; where heartbeats_converted * 2 exceeds u8 it panics in
\* a build with overflow checks and wraps in a build without
call_available_commands_per_interval(heartbeat_interval) ==
    IF heartbeat_interval = 0 THEN {Panic}
    ELSE IF heartbeats_converted(heartbeat_interval) * 2 > U8_MAX
         THEN {Panic, Ok(available_commands_per_interval(heartbeat_interval))}
         ELSE {Ok(available_commands_per_interval(heartbeat_interval))}

\* LeakyBucket::builder().max(n).tokens(n).refill_interval(..).refill_amount(n)
LeakyBucket(n) ==
    [max |-> n, tokens |-> n, refill_interval |-> RESET_DURATION_MILLISECONDS,
     refill_amount |-> n]

\* variant: a set replaces what the cell holds
OnceCell_set_overwriting(cell, value) == {value}

\* OnceCell::set: the first set wins, later ones are ignored
OnceCell_set(cell, value) == IF cell = {} THEN {value} ELSE cell

\* Session::disable_ratelimiter
disable_ratelimiter(s) == [s EXCEPT !.ratelimit = OnceCell_set(@, None)]

\* Session::new
new(tx, ratelimit_payloads) ==
    LET session == [heartbeater_handle |-> None,
                    heartbeats |-> [sent |-> FALSE, received |-> FALSE],
                    heartbeat_interval |-> 0,
                    id |-> None,
                    seq |-> 0,
                    stage |-> "Disconnected",
                    tx |-> tx,
                    ratelimit |-> {}]
    IN IF ~ratelimit_payloads THEN disable_ratelimiter(session) ELSE session

\* Session::heartbeat_interval
heartbeat_interval(s) == s.heartbeat_interval

\* variant: the rate limiter is set up but the interval is not stored
set_heartbeat_interval_unstored(s, new_heartbeat_interval) ==
    LET commands_allotted == available_commands_per_interval(new_heartbeat_interval)
    IN [s EXCEPT !.ratelimit = OnceCell_set(@, Some(LeakyBucket(commands_allotted)))]

\* Session::set_heartbeat_interval
set_heartbeat_interval(s, new_heartbeat_interval) ==
    LET commands_allotted == available_commands_per_interval(new_heartbeat_interval)
    IN [s EXCEPT !.heartbeat_interval = new_heartbeat_interval,
                 !.ratelimit = OnceCell_set(@, Some(LeakyBucket(commands_allotted)))]

\* variant: the getter reads 0 whatever was stored
seq_zero(s) == 0

\* Session::seq
seq(s) == s.seq

\* variant: the store is lost
set_seq_lost(s, n) == s

\* Session::set_seq
set_seq(s, n) == [s EXCEPT !.seq = n]

\* Session::stage
stage(s) == s.stage

\* variant: Identifying is stored as Connected
set_stage_skipping(s, st) ==
    [s EXCEPT !.stage = IF st = "Identifying" THEN "Connected" ELSE st]

\* Session::set_stage
set_stage(s, st) == [s EXCEPT !.stage = st]

\* variant: the getter reads None whatever was stored
id_none(s) == None

\* Session::id
id(s) == s.id

\* variant: the new session id is dropped
set_id_dropped(s, new_id) == s

\* Session::set_id
set_id(s, new_id) == [s EXCEPT !.id = Some(new_id)]

\* variant: the handle is left in place and the task keeps running
stop_heartbeater_kept(s) == s

\* Session::stop_heartbeater: take the handle and abort the task
stop_heartbeater(s) == [s EXCEPT !.heartbeater_handle = None]

\* Session::start_heartbeater: the task is spawned with the interval stored
\* at that moment; the handle replaces (and aborts) the old one
start_heartbeater(s) ==
    LET interval == heartbeat_interval(s)
    IN [s EXCEPT !.heartbeater_handle = Some([interval |-> interval])]

\* json::to_vec(&payload): Err for a payload whose Serialize implementation
\* fails, otherwise the encoded payload
to_vec(payload) == IF payload.op = "Unencodable" THEN None ELSE Some(payload)

\* the Result of Session::send: the payload is encoded first, then tx.send
\* fails when the receiver of the channel is gone
send_result(chan, payload) ==
    IF to_vec(payload) = None THEN "Serializing"
    ELSE IF ~chan.receiver THEN "Sending"
    ELSE "Ok"

\* variant: the frame is put on the channel whatever the outcome
send_enqueuing(chan, payload) == [chan EXCEPT !.q = Append(@, payload)]

\* Session::send on the unbounded channel behind tx: Err(Serializing) when
\* the payload cannot be encoded, Err(Sending) when the receiver is gone,
\* otherwise the frame is enqueued
send(chan, payload) ==
    IF to_vec(payload) = None THEN chan
    ELSE IF chan.receiver THEN [chan EXCEPT !.q = Append(@, unwrap(to_vec(payload)))]
    ELSE chan

\* Session::close
close(chan) == send(chan, [op |-> "Close", id |-> None, seq |-> 0])

\* Session::heartbeat
heartbeat(s, chan) == send(chan, [op |-> "Heartbeat", id |-> None, seq |-> seq(s)])

\* ------------------------------------------------------------------------
\* Close codes (twilight-model/src/gateway/close_code.rs)
\* ------------------------------------------------------------------------
\* variant: 4004 and 4005 are swapped
CloseCode_try_from_swapped(value) ==
    CASE value = 4000 -> Some("UnknownError")
      [] value = 4001 -> Some("UnknownOpcode")
      [] value = 4002 -> Some("DecodeError")
      [] value = 4003 -> Some("NotAuthenticated")
      [] value = 4004 -> Some("AlreadyAuthenticated")
      [] value = 4005 -> Some("AuthenticationFailed")
      [] value = 4007 -> Some("InvalidSequence")
      [] value = 4008 -> Some("RateLimited")
      [] value = 4009 -> Some("SessionTimedOut")
      [] value = 4010 -> Some("InvalidShard")
      [] value = 4011 -> Some("ShardingRequired")
      [] value = 4012 -> Some("InvalidApiVersion")
      [] value = 4013 -> Some("InvalidIntents")
      [] value = 4014 -> Some("DisallowedIntents")
      [] OTHER -> None

\* impl TryFrom<u16> for CloseCode: the variant of a close code, or Err
CloseCode_try_from(value) ==
    CASE value = 4000 -> Some("UnknownError")
      [] value = 4001 -> Some("UnknownOpcode")
      [] value = 4002 -> Some("DecodeError")
      [] value = 4003 -> Some("NotAuthenticated")
      [] value = 4004 -> Some("AuthenticationFailed")
      [] value = 4005 -> Some("AlreadyAuthenticated")
      [] value = 4007 -> Some("InvalidSequence")
      [] value = 4008 -> Some("RateLimited")
      [] value = 4009 -> Some("SessionTimedOut")
      [] value = 4010 -> Some("InvalidShard")
      [] value = 4011 -> Some("ShardingRequired")
      [] value = 4012 -> Some("InvalidApiVersion")
      [] value = 4013 -> Some("InvalidIntents")
      [] value = 4014 -> Some("DisallowedIntents")
      [] OTHER -> None

\* spec.md section 7: the fatal set, the session-invalidating set and the
\* named resumable set of close codes
FatalCloseCodes ==
    {"AuthenticationFailed", "InvalidIntents", "DisallowedIntents",
     "ShardingRequired", "InvalidApiVersion"}
InvalidatingCloseCodes == {"InvalidSequence", "AlreadyAuthenticated"}
ResumableCloseCodes ==
    {"UnknownError", "UnknownOpcode", "DecodeError", "RateLimited", "SessionTimedOut"}

\* The Shard's reaction to a close frame: "fatal", "invalidate" or "resume"
\* (most close codes are transient; a code outside the enum is transient)
classify_close(value) ==
    LET code == CloseCode_try_from(value)
    IN IF code = None THEN "resume"
       ELSE IF unwrap(code) \in FatalCloseCodes THEN "fatal"
       ELSE IF unwrap(code) \in InvalidatingCloseCodes THEN "invalidate"
       ELSE "resume"

\* close codes a server frame may carry: every code of the enum, one unused
\* code of the range (4006) and a normal closure (1000)
WireCloseCodes == (4000..4014) \cup {1000}

\* ------------------------------------------------------------------------
\* Resume seeds (cluster/impl.rs, shard/builder.rs, shard/config.rs)
\* ------------------------------------------------------------------------
\* ShardBuilder::into_config: no resume seed
into_config(ratelimit_payloads) ==
    [ratelimit_payloads |-> ratelimit_payloads, session_id |-> None,
     sequence |-> None, shard |-> <<0, 1>>]

\* Cluster::new_with_config, the body of the fold for shard idx
new_with_config(resume_sessions, shard_config, idx, total) ==
    LET c == [shard_config EXCEPT !.shard = <<idx, total>>]
    IN IF idx \in DOMAIN resume_sessions
       THEN [c EXCEPT !.session_id = Some(resume_sessions[idx].session_id),
                      !.sequence = Some(resume_sessions[idx].sequence)]
       ELSE c

\* the resume_sessions maps a Cluster is built with
ResumeSessionMaps ==
    {[i \in {} |-> 0]} \cup
    {[i \in {0} |-> [session_id |-> sid, sequence |-> sq]] : sid \in {2}, sq \in {2}}

\* ------------------------------------------------------------------------
\* State
\* ------------------------------------------------------------------------
VARIABLES
    config,      \* the shard's Config (resume seed, ratelimit toggle)
    shard,       \* "new", "running", "fatal" or "shutdown"
    pc,          \* position of the driving loop: "idle", "connect", "await", "emit"
    cur,         \* the Dispatch frame whose event is about to be emitted
    cycle,       \* number of connection attempts so far
    session,     \* Option<Session>: the Session of the current cycle
    prior,       \* Option<(session_id, sequence)> available to the next handshake
    inbound,     \* channel forwarder -> shard
    outbound,    \* channel session.tx -> forwarder
    forwarder,   \* "none", "running", "closing" (the socket delivered a close frame) or "done"
    nframes,     \* frames the socket has delivered
    ndispatch,   \* Dispatch frames the socket has delivered
    events,      \* events emitted to the consumer, in order
    handshakes,  \* Identify/Resume commands sent on the current connection
    hello,       \* Option<interval> of the Hello processed on the current connection
    ended,       \* Option<what ended the last connection>, until the next one opens or a shutdown
    handshaken,  \* a handshake completed and the session was not invalidated since
    invalidated, \* the session was invalidated at least once
    result       \* Option<return value> of the last shutdown_resumable()

\* components examined on their own, outside a running Shard
VARIABLES
    fnio,        \* an argument of available_commands_per_interval and what the call gave
    rate,        \* a Session, its outbound rate bucket and a caller of Shard::command
    beat,        \* a Heartbeater with the Latency it tracks acknowledgements in
    tasks,       \* the heartbeater tasks of a Session and the callers of start/stop
    wire,        \* a Session's outbound channel and a caller of Session::send
    lat,         \* a Latency and the samples recorded in it
    builder,     \* a ShardBuilder and what the last call on it gave
    cluster,     \* a Cluster, its shards and its merged event stream
    fwd,         \* a Socket Forwarder with its two channels and its socket
    cache,       \* an InMemoryCache and the updates applied to it
    voice,       \* a VoiceChannelStates iterator over a cache another task updates
    filter       \* an EventTypeFlags filter and the event types tested against it

shardvars == <<config, shard, pc, cur, cycle, session, prior, inbound, outbound,
               forwarder, nframes, ndispatch, events, handshakes, hello, ended,
               handshaken, invalidated, result>>
unitvars == <<fnio, rate, beat, tasks, wire, lat, builder, cluster, fwd,
             cache, voice, filter>>
vars == <<shardvars, unitvars>>

\* a component that is not part of the system under examination
Unused == "unused"
UnitsUnused ==
    /\ fnio = Unused
    /\ rate = Unused
    /\ beat = Unused
    /\ tasks = Unused
    /\ wire = Unused
    /\ lat = Unused
    /\ builder = Unused
    /\ cluster = Unused
    /\ fwd = Unused
    /\ cache = Unused /\ voice = Unused /\ filter = Unused

NoFrame == [op |-> "None", d |-> 0, n |-> 0]
Channel == [q |-> <<>>, sender |-> TRUE, receiver |-> TRUE]
ClosedChannel == [q |-> <<>>, sender |-> FALSE, receiver |-> FALSE]

\* frames the server may put on the socket; the close code of a close frame
\* is read when the Shard decodes the frame (OnClose)
ServerFrames ==
    {[op |-> "Hello", d |-> i] : i \in HelloIntervals}
    \cup {[op |-> "Ready", d |-> i] : i \in SessionIds}
    \cup {[op |-> o, d |-> 0] : o \in {"Resumed", "HeartbeatAck", "Heartbeat", "Reconnect"}}
    \cup {[op |-> "Dispatch", d |-> s] : s \in 1..MaxSeq}
    \cup {[op |-> "InvalidSession", d |-> b] : b \in {0, 1}}
    \cup {[op |-> "Close", d |-> 0]}

\* the stage a caller reads from the Shard (Disconnected before the first Session)
ShardStage == IF session = None THEN "Disconnected" ELSE stage(unwrap(session))
\* the sequence a caller reads from the Shard
ShardSeq == IF session = None THEN 0 ELSE seq(unwrap(session))

Init ==
    /\ config \in {new_with_config(rs, into_config(rl), 0, 1) :
                      rs \in ResumeSessionMaps, rl \in {TRUE}}
    /\ shard = "new"
    /\ pc = "idle"
    /\ cur = NoFrame
    /\ cycle = 0
    /\ session = None
    /\ prior = None
    /\ inbound = ClosedChannel
    /\ outbound = ClosedChannel
    /\ forwarder = "none"
    /\ nframes = 0
    /\ ndispatch = 0
    /\ events = <<>>
    /\ handshakes = <<>>
    /\ hello = None
    /\ ended = None
    /\ handshaken = FALSE
    /\ invalidated = FALSE
    /\ result = None
    /\ UnitsUnused

\* ------------------------------------------------------------------------
\* Shard: the driving loop (spec.md sections 4.4 and 5)
\* ------------------------------------------------------------------------
\* the (session_id, sequence) pair of a Session, if it has a session id
resume_pair(s) ==
    IF id(s) = None THEN None
    ELSE Some([session_id |-> unwrap(id(s)), sequence |-> seq(s)])

\* the resume seed of a Config
config_seed(c) ==
    IF c.session_id # None /\ c.sequence # None
    THEN Some([session_id |-> unwrap(c.session_id), sequence |-> unwrap(c.sequence)])
    ELSE None

\* a fresh Session seeded with the prior pair, if there is one
seeded_session(tx, ratelimit_payloads, p) ==
    IF p = None THEN new(tx, ratelimit_payloads)
    ELSE set_seq(set_id(new(tx, ratelimit_payloads), unwrap(p).session_id),
                 unwrap(p).sequence)

\* clear session_id and sequence of a Session
clear_session(s) == [s EXCEPT !.id = None, !.seq = 0]

Identify == [op |-> "Identify", id |-> None, seq |-> 0]
Resume(s) == [op |-> "Resume", id |-> id(s), seq |-> seq(s)]

\* Shard::start
Start ==
    /\ UNCHANGED unitvars
    /\ shard = "new"
    /\ pc = "idle"
    /\ cycle < MaxCycles
    /\ shard' = "running"
    /\ pc' = "connect"
    /\ prior' = config_seed(config)
    /\ UNCHANGED <<config, cur, cycle, session, inbound, outbound, forwarder, nframes,
                   ndispatch, events, handshakes, hello, ended, handshaken,
                   invalidated, result>>

\* step 1: open the transport, construct a fresh Session wired to a new
\* Socket Forwarder (SocketForwarder::new), Disconnected -> Connecting
Connect ==
    /\ UNCHANGED unitvars
    /\ shard = "running"
    /\ pc = "connect"
    /\ cycle < MaxCycles
    /\ cycle' = cycle + 1
    /\ session' = Some(set_stage(seeded_session(cycle + 1, config.ratelimit_payloads, prior),
                                 "Connecting"))
    /\ inbound' = Channel
    /\ outbound' = Channel
    /\ forwarder' = "running"
    /\ handshakes' = <<>>
    /\ hello' = None
    /\ ended' = None
    /\ pc' = "await"
    /\ UNCHANGED <<config, shard, cur, prior, nframes, ndispatch, events, handshaken,
                   invalidated, result>>

\* step 6: a disconnect of the current connection, resumable or not
Disconnect(resumable, why) ==
    LET s == unwrap(session)
        stopped == set_stage(stop_heartbeater(s), "Disconnected")
        kept == IF resumable THEN stopped ELSE clear_session(stopped)
    IN /\ session' = Some(kept)
       /\ prior' = resume_pair(kept)
       /\ handshaken' = (handshaken /\ resumable)
       /\ invalidated' = (invalidated \/ ~resumable)
       /\ ended' = Some(why)
       /\ inbound' = [q |-> <<>>, sender |-> inbound.sender, receiver |-> FALSE]
       /\ outbound' = [outbound EXCEPT !.sender = FALSE]
       /\ pc' = "connect"
       /\ UNCHANGED <<config, shard, cur, cycle, forwarder, nframes, ndispatch, events,
                      handshakes, hello, result>>

\* the loop has a frame of kind op at hand
Takes(op) ==
    /\ shard = "running"
    /\ pc = "await"
    /\ inbound.q # <<>>
    /\ Head(inbound.q).op = op

Popped == [inbound EXCEPT !.q = Tail(@)]

\* steps 2 and 3: Hello, then Resume or Identify
OnHello ==
    /\ UNCHANGED unitvars
    /\ Takes("Hello")
    /\ LET s == unwrap(session)
           beating == start_heartbeater(set_heartbeat_interval(s, Head(inbound.q).d))
       IN IF stage(s) = "Connecting"
          THEN /\ hello' = Some(Head(inbound.q).d)
               /\ IF id(beating) # None
                  THEN /\ session' = Some(set_stage(beating, "Resuming"))
                       /\ outbound' = send(outbound, Resume(beating))
                       /\ handshakes' = Append(handshakes, Resume(beating))
                  ELSE /\ session' = Some(set_stage(beating, "Identifying"))
                       /\ outbound' = send(outbound, Identify)
                       /\ handshakes' = Append(handshakes, Identify)
          ELSE UNCHANGED <<hello, session, outbound, handshakes>>
    /\ inbound' = Popped
    /\ UNCHANGED <<config, shard, pc, cur, cycle, prior, forwarder, nframes, ndispatch,
                   events, ended, handshaken,
                   invalidated, result>>

\* step 4: Ready after a fresh identify
OnReady ==
    /\ UNCHANGED unitvars
    /\ Takes("Ready")
    /\ LET s == unwrap(session)
       IN IF stage(s) = "Identifying"
          THEN /\ session' = Some(set_stage(set_id(s, Head(inbound.q).d), "Connected"))
               /\ events' = Append(events, [kind |-> "ShardConnected", seq |-> 0, n |-> 0,
                                            cycle |-> cycle])
               /\ handshaken' = TRUE
          ELSE UNCHANGED <<session, events, handshaken>>
    /\ inbound' = Popped
    /\ UNCHANGED <<config, shard, pc, cur, cycle, prior, outbound, forwarder, nframes,
                   ndispatch, handshakes, hello, ended, invalidated, result>>

\* step 4: Resumed after a resume
OnResumed ==
    /\ UNCHANGED unitvars
    /\ Takes("Resumed")
    /\ LET s == unwrap(session)
       IN IF stage(s) = "Resuming"
          THEN /\ session' = Some(set_stage(s, "Connected"))
               /\ events' = Append(events, [kind |-> "ShardConnected", seq |-> 0, n |-> 0,
                                            cycle |-> cycle])
               /\ handshaken' = TRUE
          ELSE UNCHANGED <<session, events, handshaken>>
    /\ inbound' = Popped
    /\ UNCHANGED <<config, shard, pc, cur, cycle, prior, outbound, forwarder, nframes,
                   ndispatch, handshakes, hello, ended, invalidated, result>>

\* step 5, Dispatch: update the sequence, then (next step) emit the event
OnDispatch ==
    /\ UNCHANGED unitvars
    /\ Takes("Dispatch")
    /\ LET s == unwrap(session)
       IN IF stage(s) = "Connected"
          THEN /\ session' = Some(set_seq(s, Head(inbound.q).d))
               /\ cur' = Head(inbound.q)
               /\ pc' = "emit"
          ELSE UNCHANGED <<session, cur, pc>>
    /\ inbound' = Popped
    /\ UNCHANGED <<config, shard, cycle, prior, outbound, forwarder, nframes, ndispatch,
                   events, handshakes, hello, ended, handshaken,
                   invalidated, result>>

\* step 5, Dispatch: emit the decoded event; a loop told to stop stops here
Emit ==
    /\ UNCHANGED unitvars
    /\ pc = "emit"
    /\ events' = Append(events, [kind |-> "Dispatch", seq |-> cur.d, n |-> cur.n,
                                 cycle |-> cycle])
    /\ cur' = NoFrame
    /\ pc' = IF shard = "running" THEN "await" ELSE "idle"
    /\ UNCHANGED <<config, shard, cycle, session, prior, inbound, outbound, forwarder,
                   nframes, ndispatch, handshakes, hello, ended, handshaken,
                   invalidated, result>>

\* step 5, Heartbeat-ack: Latency::track_received
OnHeartbeatAck ==
    /\ UNCHANGED unitvars
    /\ Takes("HeartbeatAck")
    /\ LET s == unwrap(session)
       IN IF stage(s) = "Connected"
          THEN session' = Some([s EXCEPT !.heartbeats.received = TRUE])
          ELSE UNCHANGED session
    /\ inbound' = Popped
    /\ UNCHANGED <<config, shard, pc, cur, cycle, prior, outbound, forwarder, nframes,
                   ndispatch, events, handshakes, hello, ended, handshaken,
                   invalidated, result>>

\* step 5, server-requested Heartbeat: Session::heartbeat and Latency::track_sent
OnHeartbeat ==
    /\ UNCHANGED unitvars
    /\ Takes("Heartbeat")
    /\ LET s == unwrap(session)
       IN IF stage(s) = "Connected"
          THEN /\ outbound' = heartbeat(s, outbound)
               /\ session' = Some([s EXCEPT !.heartbeats = [sent |-> TRUE, received |-> FALSE]])
          ELSE UNCHANGED <<session, outbound>>
    /\ inbound' = Popped
    /\ UNCHANGED <<config, shard, pc, cur, cycle, prior, forwarder, nframes, ndispatch,
                   events, handshakes, hello, ended, handshaken,
                   invalidated, result>>

\* step 5, Reconnect: restart preferring resume
OnReconnect ==
    /\ UNCHANGED unitvars
    /\ Takes("Reconnect")
    /\ Disconnect(TRUE, [kind |-> "Reconnect", d |-> 0])

\* step 5, Invalid-session: restart, resuming only if the payload says so
OnInvalidSession ==
    /\ UNCHANGED unitvars
    /\ Takes("InvalidSession")
    /\ Disconnect(Head(inbound.q).d = 1, [kind |-> "InvalidSession", d |-> Head(inbound.q).d])

\* step 5, Close frame: a fatal code stops the Shard, the others restart it
OnCloseCode(d) ==
    /\ LET s == unwrap(session)
       IN IF classify_close(d) = "fatal"
          THEN /\ shard' = "fatal"
               /\ ended' = Some([kind |-> "Close", d |-> d])
               /\ pc' = "idle"
               /\ session' = Some(set_stage(stop_heartbeater(s), "Disconnected"))
               /\ inbound' = [q |-> <<>>, sender |-> inbound.sender, receiver |-> FALSE]
               /\ outbound' = [outbound EXCEPT !.sender = FALSE]
               /\ UNCHANGED <<config, cur, cycle, prior, forwarder, nframes, ndispatch,
                              events, handshakes, hello, handshaken, invalidated, result>>
          ELSE Disconnect(classify_close(d) = "resume", [kind |-> "Close", d |-> d])

OnClose ==
    /\ UNCHANGED unitvars
    /\ Takes("Close")
    /\ \E d \in WireCloseCodes : OnCloseCode(d)

\* step 5: the Socket Forwarder terminated, the inbound channel is closed
OnChannelClosed ==
    /\ UNCHANGED unitvars
    /\ shard = "running"
    /\ pc = "await"
    /\ inbound.q = <<>>
    /\ ~inbound.sender
    /\ Disconnect(TRUE, [kind |-> "ChannelClosed", d |-> 0])

\* ------------------------------------------------------------------------
\* Shard: shutdown (spec.md sections 4.4 and 5, Cluster::down and
\* Cluster::down_resumable call it on every shard)
\* ------------------------------------------------------------------------
\* the ResumeSession snapshot of the Shard, if one exists
snapshot ==
    IF session = None THEN None ELSE resume_pair(unwrap(session))

\* stop the heartbeater, go to Disconnected, send a close frame when
\* feasible, close the outbound channel, tell the loop to stop at its next
\* suspension point
ShutdownEffect ==
    /\ shard \in {"new", "running", "fatal"}
    /\ shard' = "shutdown"
    /\ pc' = IF pc = "emit" THEN "emit" ELSE "idle"
    /\ session' = IF session = None THEN None
                  ELSE Some(set_stage(stop_heartbeater(unwrap(session)), "Disconnected"))
    /\ outbound' = [close(outbound) EXCEPT !.sender = FALSE]
    /\ inbound' = [q |-> <<>>, sender |-> inbound.sender, receiver |-> FALSE]
    /\ prior' = None
    /\ handshaken' = FALSE
    /\ ended' = None
    /\ UNCHANGED <<config, cur, cycle, forwarder, nframes, ndispatch, events,
                   handshakes, hello, invalidated>>

\* Shard::shutdown
Shutdown ==
    /\ UNCHANGED unitvars
    /\ ShutdownEffect
    /\ UNCHANGED result

\* Shard::shutdown_resumable
ShutdownResumable ==
    /\ UNCHANGED unitvars
    /\ ShutdownEffect
    /\ result' = Some(snapshot)

\* ------------------------------------------------------------------------
\* Socket Forwarder (shard/processor/socket_forwarder.rs)
\* ------------------------------------------------------------------------
\* variant: the frame goes to the front of the inbound channel
forward_front(chan, msg) == [chan EXCEPT !.q = <<msg>> \o @]

\* self.tx.send(msg): the frame goes to the back of the inbound channel
forward(chan, msg) == [chan EXCEPT !.q = Append(@, msg)]

\* variant: the task ends but its sender of the inbound channel stays alive
ForwarderBreak_holding ==
    /\ forwarder' = "done"
    /\ inbound' = inbound
    /\ outbound' = [q |-> <<>>, sender |-> outbound.sender, receiver |-> FALSE]

\* break: the task ends, its sender and receiver are dropped
ForwarderBreak ==
    /\ forwarder' = "done"
    /\ inbound' = [inbound EXCEPT !.sender = FALSE]
    /\ outbound' = [q |-> <<>>, sender |-> outbound.sender, receiver |-> FALSE]

\* Either::Right, Some(Ok(msg)): forward the frame, break if the receiver is
\* gone; a close frame is the last frame a socket delivers
ForwarderRecv ==
    /\ UNCHANGED unitvars
    /\ forwarder = "running"
    /\ nframes < MaxFrames
    /\ Len(inbound.q) < MaxInbound
    /\ \E f \in ServerFrames :
          /\ f.op = "Dispatch" => ndispatch < MaxDispatch
          /\ ndispatch' = IF f.op = "Dispatch" THEN ndispatch + 1 ELSE ndispatch
          /\ IF inbound.receiver
             THEN /\ inbound' = forward(inbound,
                                   [op |-> f.op, d |-> f.d,
                                    n |-> IF f.op = "Dispatch" THEN ndispatch + 1 ELSE 0])
                  /\ forwarder' = IF f.op = "Close" THEN "closing" ELSE forwarder
                  /\ UNCHANGED outbound
             ELSE ForwarderBreak
    /\ nframes' = nframes + 1
    /\ UNCHANGED <<config, shard, pc, cur, cycle, session, prior, events, handshakes,
                   hello, ended, handshaken,
                   invalidated, result>>

\* Either::Left, Some(msg): write the frame to the socket, break if that fails
ForwarderWrite ==
    /\ UNCHANGED unitvars
    /\ forwarder \in {"running", "closing"}
    /\ outbound.q # <<>>
    /\ \E ok \in BOOLEAN :
          IF ok THEN /\ outbound' = [outbound EXCEPT !.q = Tail(@)]
                     /\ UNCHANGED <<forwarder, inbound>>
          ELSE ForwarderBreak
    /\ UNCHANGED <<config, shard, pc, cur, cycle, session, prior, nframes, ndispatch,
                   events, handshakes, hello, ended, handshaken,
                   invalidated, result>>

\* Either::Left, None: every sender is gone, close the socket and break
ForwarderRxClosed ==
    /\ UNCHANGED unitvars
    /\ forwarder \in {"running", "closing"}
    /\ outbound.q = <<>>
    /\ ~outbound.sender
    /\ ForwarderBreak
    /\ UNCHANGED <<config, shard, pc, cur, cycle, session, prior, nframes, ndispatch,
                   events, handshakes, hello, ended, handshaken,
                   invalidated, result>>

\* Either::Right Some(Err) or None, or the timeout: break
ForwarderSocketDown ==
    /\ UNCHANGED unitvars
    /\ forwarder \in {"running", "closing"}
    /\ ForwarderBreak
    /\ UNCHANGED <<config, shard, pc, cur, cycle, session, prior, nframes, ndispatch,
                   events, handshakes, hello, ended, handshaken,
                   invalidated, result>>

\* ------------------------------------------------------------------------
\* Specification
\* ------------------------------------------------------------------------
Next ==
    \/ Start
    \/ Connect
    \/ OnHello
    \/ OnReady
    \/ OnResumed
    \/ OnDispatch
    \/ Emit
    \/ OnHeartbeatAck
    \/ OnHeartbeat
    \/ OnReconnect
    \/ OnInvalidSession
    \/ OnClose
    \/ OnChannelClosed
    \/ Shutdown
    \/ ShutdownResumable
    \/ ForwarderRecv
    \/ ForwarderWrite
    \/ ForwarderRxClosed
    \/ ForwarderSocketDown

Spec == Init /\ [][Next]_vars

\* ------------------------------------------------------------------------
\* Properties
\* ------------------------------------------------------------------------
Stages == {"Disconnected", "Connecting", "Identifying", "Resuming", "Connected"}
StageSteps == {<<"Disconnected", "Connecting">>, <<"Connecting", "Identifying">>,
               <<"Connecting", "Resuming">>, <<"Identifying", "Connected">>,
               <<"Resuming", "Connected">>}
IsHandshake(m) == m.op \in {"Identify", "Resume"}
Heartbeaters == IF session = None THEN {} ELSE unwrap(session).heartbeater_handle

\* C1: on a connection no Identify or Resume is sent before a Hello was
\* received and its interval stored in the Session, and a heartbeater only
\* ever runs with the stored Hello interval, never with interval 0.
C1_HelloFirst ==
    /\ (handshakes # <<>> \/ \E i \in DOMAIN outbound.q : IsHandshake(outbound.q[i]))
          => /\ hello # None
             /\ session # None
             /\ unwrap(session).heartbeat_interval = unwrap(hello)
    /\ \A h \in Heartbeaters :
          /\ hello # None
          /\ h.interval = unwrap(hello)
          /\ h.interval = unwrap(session).heartbeat_interval
          /\ h.interval # 0

\* a handshake command is on its way and the heartbeater runs (second connection)
C1_Witness ==
    /\ cycle = 2
    /\ Len(handshakes) = 1
    /\ outbound.q # <<>> /\ IsHandshake(Head(outbound.q))
    /\ \E h \in Heartbeaters : h.interval = 42500

\* C2: the stage is one of the five stages, Disconnected at first, and it
\* only changes Disconnected -> Connecting, Connecting -> Identifying,
\* Connecting -> Resuming, Identifying -> Connected, Resuming -> Connected,
\* or to Disconnected; Connected is entered from Identifying or Resuming only.
C2_StageMachine ==
    /\ ShardStage = "Disconnected"
    /\ [](session # None => unwrap(session).stage \in Stages)
    /\ [][session' # None /\ ShardStage' # ShardStage
             => \/ unwrap(session').stage = "Disconnected"
                \/ <<ShardStage, unwrap(session').stage>> \in StageSteps]_vars

\* Connected on the second connection, after a Resume
C2_Witness ==
    /\ cycle = 2
    /\ ShardStage = "Connected"
    /\ Len(handshakes) = 1 /\ handshakes[1].op = "Resume"

\* C3: after Hello exactly one handshake command is sent per connection:
\* Resume, carrying exactly the stored session id and sequence, with stage
\* Resuming, iff a prior (session_id, sequence) pair is available (the
\* configured seed on the first connection, or the pair carried over from the
\* previous connection); otherwise Identify with stage Identifying.
C3_ResumeOrIdentify ==
    /\ Len(handshakes) <= 1
    /\ (shard = "running" /\ pc \in {"await", "emit"}) =>
          /\ hello # None <=> Len(handshakes) = 1
          /\ cycle = 1 =>
                prior = IF config.session_id # None /\ config.sequence # None
                        THEN Some([session_id |-> unwrap(config.session_id),
                                   sequence |-> unwrap(config.sequence)])
                        ELSE None
          /\ (Len(handshakes) = 1 /\ prior # None) =>
                handshakes[1] = [op |-> "Resume", id |-> Some(unwrap(prior).session_id),
                                 seq |-> unwrap(prior).sequence]
          /\ (Len(handshakes) = 1 /\ prior = None) => handshakes[1] = Identify
          /\ ShardStage = "Resuming" => (Len(handshakes) = 1 /\ prior # None)
          /\ ShardStage = "Identifying" => (Len(handshakes) = 1 /\ prior = None)
          /\ (Len(handshakes) = 1 /\ ShardStage \in {"Resuming", "Identifying"}) =>
                (ShardStage = "Resuming" <=> handshakes[1].op = "Resume")

\* a Resume on the second connection of a shard configured without a seed:
\* the pair was carried over from the first connection
C3_Witness ==
    /\ cycle = 2
    /\ config.session_id = None
    /\ shard = "running" /\ pc = "await"
    /\ ShardStage = "Resuming"
    /\ handshakes = <<[op |-> "Resume", id |-> Some(1), seq |-> 2]>>

\* the pair a Session holds, read from its fields
HeldPair(o) ==
    IF o = None \/ unwrap(o).id = None THEN None
    ELSE Some([session_id |-> unwrap(unwrap(o).id), sequence |-> unwrap(o).seq])
\* the handshake command the available pair calls for
HandshakeFor(p) ==
    IF p = None THEN Identify
    ELSE [op |-> "Resume", id |-> Some(unwrap(p).session_id), seq |-> unwrap(p).sequence]
\* the connection just ended for a reason of this kind
EndedBy(kind) == ended' # ended /\ ended' # None /\ unwrap(ended').kind = kind
FatalWireCodes == {4004, 4011, 4012, 4013, 4014}
ResumableWireCodes == {4000, 4001, 4002, 4008, 4009}

Stops == shard' = "fatal" /\ pc' = "idle"
Reidentifies ==
    /\ shard' = "running" /\ pc' = "connect"
    /\ unwrap(session').id = None /\ unwrap(session').seq = 0
    /\ prior' = None
Resumes ==
    /\ shard' = "running" /\ pc' = "connect"
    /\ HeldPair(session') = HeldPair(session)
    /\ prior' = HeldPair(session)

Last(q) == q[Len(q)]
IsDispatch(e) == e.kind = "Dispatch"

\* C6: Dispatch frames are emitted as events in the order they were received,
\* one event per frame, and after processing frames with sequences s1..sn the
\* sequence of the Session equals sn.
C6_DispatchOrder ==
    /\ [](\A i, j \in DOMAIN events :
            (i < j /\ IsDispatch(events[i]) /\ IsDispatch(events[j]))
               => events[i].n < events[j].n)
    /\ [][(pc = "await" /\ pc' = "emit") => cur' = Head(inbound.q)]_vars
    /\ [][(pc = "emit" /\ pc' # "emit") =>
            events' = Append(events, [kind |-> "Dispatch", seq |-> cur.d, n |-> cur.n,
                                      cycle |-> cycle])]_vars
    /\ [][events' # events =>
            /\ Len(events') = Len(events) + 1
            /\ IsDispatch(Last(events')) => pc = "emit"]_vars
    /\ [](pc = "emit" => unwrap(session).seq = cur.d)
    /\ []((pc # "emit" /\ ShardStage = "Connected" /\ events # <<>>
            /\ IsDispatch(Last(events)) /\ Last(events).cycle = cycle)
          => unwrap(session).seq = Last(events).seq)

\* frames 1, 2, 3 gave three events in that order and the sequence is 3
C6_Witness ==
    /\ pc = "await"
    /\ Len(events) = 4
    /\ <<events[2].seq, events[3].seq, events[4].seq>> = <<1, 2, 3>>
    /\ <<events[2].n, events[3].n, events[4].n>> = <<1, 2, 3>>
    /\ unwrap(session).seq = 3

\* C7 as stated: every read of the sequence made after the event with
\* sequence s was observed returns at least s, whatever happens in between,
\* a reconnect that installs a new Session included.
C7_ReadAtLeastObserved ==
    \A i \in DOMAIN events : IsDispatch(events[i]) => ShardSeq >= events[i].seq

\* C7: the sequence update of a Dispatch frame is applied before its event is
\* emitted: when the event with sequence s is emitted the Session already
\* holds s, and a read returns s until the Shard accepts its next Dispatch
\* frame (which stores that frame's sequence, lower ones included), clears
\* the session on an invalidation, or opens a new connection.
C7_UpdateBeforeEmit ==
    /\ [][(events' # events /\ IsDispatch(Last(events'))) =>
            /\ unwrap(session).seq = Last(events').seq
            /\ unwrap(session').seq = Last(events').seq]_vars
    /\ [][(events # <<>> /\ IsDispatch(Last(events)) /\ events' = events
            /\ ShardSeq = Last(events).seq /\ ShardSeq' # ShardSeq) =>
            \/ pc = "await" /\ pc' = "emit" /\ ShardSeq' = cur'.d
            \/ ended' # ended /\ ended' # None /\ ShardSeq' = 0
            \/ cycle' = cycle + 1]_vars

\* the event with sequence 2 was just emitted on the second connection and
\* the Session holds 2
C7_Witness ==
    /\ cycle = 2
    /\ pc = "await"
    /\ events # <<>> /\ IsDispatch(Last(events))
    /\ Last(events).seq = 2 /\ Last(events).cycle = 2
    /\ unwrap(session).seq = 2

\* C8 as stated: while the Shard stays Connected on a connection its
\* sequence never decreases, whatever sequence number a Dispatch frame
\* carries.
C8_SequenceNeverDecreases ==
    [][(ShardStage = "Connected" /\ ShardStage' = "Connected" /\ cycle' = cycle)
          => ShardSeq' >= ShardSeq]_vars

ForwarderAlive == forwarder \in {"running", "closing"}

FairSpec ==
    /\ Spec
    /\ WF_vars(ForwarderWrite)
    /\ WF_vars(ForwarderRxClosed)

\* a step of the task that drives the Shard's handshake and event loop
LoopStep ==
    \/ Connect
    \/ OnHello
    \/ OnReady
    \/ OnResumed
    \/ OnDispatch
    \/ Emit
    \/ OnHeartbeatAck
    \/ OnHeartbeat
    \/ OnReconnect
    \/ OnInvalidSession
    \/ OnClose
    \/ OnChannelClosed

\* the Shard's loop and the Socket Forwarder are scheduled tasks
LiveSpec ==
    /\ Spec
    /\ WF_vars(LoopStep)
    /\ WF_vars(ForwarderWrite)
    /\ WF_vars(ForwarderRxClosed)

\* the Shard is running its c-th connection cycle, more cycles being allowed
RunningCycle(c) == shard = "running" /\ cycle = c
\* the Shard went on to a later connection attempt, or was stopped
MovedOn(c) == cycle > c \/ shard # "running"

\* C11: a started Shard stops for good only on a fatal close code or an
\* explicit shutdown; after every other disconnect (Reconnect, InvalidSession,
\* a non-fatal close code, and the Socket Forwarder terminating on an idle
\* timeout, a socket error or the end of the socket) it eventually starts a
\* new connection attempt, the tasks being scheduled fairly.
C11_ReconnectsUnlessStopped ==
    /\ [][(shard = "running" /\ shard' # "running") =>
            \/ shard' = "shutdown"
            \/ /\ shard' = "fatal"
               /\ EndedBy("Close")
               /\ unwrap(ended').d \in FatalWireCodes]_vars
    /\ [](shard = "running" => pc \in {"connect", "await", "emit"})
    /\ \A c \in 1..(MaxCycles - 1) :
          /\ (RunningCycle(c) /\ pc = "connect") ~> MovedOn(c)
          /\ (RunningCycle(c) /\ forwarder = "done") ~> MovedOn(c)
          /\ (RunningCycle(c) /\ ended # None /\ unwrap(ended).kind = "ChannelClosed")
                ~> MovedOn(c)

\* the second connection was opened after the Socket Forwarder of the first
\* one had terminated and the Shard had noticed the closed channel
C11_Witness ==
    /\ shard = "running"
    /\ cycle = 2
    /\ pc = "await"
    /\ hello = None
    /\ events # <<>>
    /\ inbound.sender /\ forwarder = "running"

\* ------------------------------------------------------------------------
\* available_commands_per_interval on its own
\* ------------------------------------------------------------------------
ShardUnused ==
    /\ config = new_with_config([i \in {} |-> 0], into_config(TRUE), 0, 1)
    /\ shard = "new"
    /\ pc = "idle"
    /\ cur = NoFrame
    /\ cycle = 0
    /\ session = None
    /\ prior = None
    /\ inbound = ClosedChannel
    /\ outbound = ClosedChannel
    /\ forwarder = "none"
    /\ nframes = 0
    /\ ndispatch = 0
    /\ events = <<>>
    /\ handshakes = <<>>
    /\ hello = None
    /\ ended = None
    /\ handshaken = FALSE
    /\ invalidated = FALSE
    /\ result = None

\* the worked examples of the rate-limit function (tests::heartbeats_per_reset)
ExampleIntervals == {60000, 42500, 30000, 29999}
\* the intervals the function is applied to
FnIntervals == (0..MaxInterval) \cup ExampleIntervals

FnInit ==
    /\ ShardUnused
    /\ fnio \in {[interval |-> i, out |-> None] : i \in FnIntervals}
    /\ rate = Unused /\ beat = Unused /\ tasks = Unused /\ wire = Unused /\ lat = Unused
    /\ builder = Unused /\ cluster = Unused /\ fwd = Unused
    /\ cache = Unused /\ voice = Unused /\ filter = Unused

\* one call of available_commands_per_interval(fnio.interval)
FnCall ==
    /\ fnio.out = None
    /\ \E o \in call_available_commands_per_interval(fnio.interval) :
          fnio' = [fnio EXCEPT !.out = Some(o)]
    /\ UNCHANGED <<shardvars, rate, beat, tasks, wire, lat, builder, cluster, fwd, cache, voice, filter>>

FnNext == FnCall
FnSpec == FnInit /\ [][FnNext]_vars

\* the call returned the value v
Returned(v) == fnio.out = Some(Ok(v))

\* C14: available_commands_per_interval returns exactly 118 for interval
\* 60000, 116 for 42500, 116 for 30000 and 114 for 29999.
C14_WorkedExamples ==
    fnio.out # None =>
       /\ fnio.interval = 60000 => Returned(118)
       /\ fnio.interval = 42500 => Returned(116)
       /\ fnio.interval = 30000 => Returned(116)
       /\ fnio.interval = 29999 => Returned(114)

\* the call with 29999 returned 114
C14_Witness == fnio = [interval |-> 29999, out |-> Some(Ok(114))]

\* C15 as stated: for all intervals a < b of the function's domain (every
\* interval of at least 1 ms), the value returned for a is at most the value
\* returned for b.
C15_Monotone ==
    \A v \in 0..U8_MAX :
       (fnio.interval >= 1 /\ Returned(v)) =>
          \A b \in FnIntervals :
             b > fnio.interval =>
                \A w \in call_available_commands_per_interval(b) \ {Panic} : v <= w.value

\* C16 as stated: for every interval whose heartbeat count
\* ceil(60000 / interval) does not fit 8 bits the function returns 110.
C16_FallbackAllotment ==
    (fnio.interval >= 1 /\ fnio.out # None
       /\ heartbeats_per_reset(fnio.interval) > U8_MAX)
    => Returned(ALLOT_ON_FAIL)

\* C33: for every interval of at least 1 ms whose heartbeat count
\* h = ceil(60000 / interval) fits 8 bits, the function returns
\* max(0, 120 - 2*h): the reservation is computed without overflow or
\* wrap-around and the subtraction saturates at 0.
C33_ReservationExact ==
    (fnio.interval >= 1 /\ fnio.out # None
       /\ heartbeats_per_reset(fnio.interval) <= U8_MAX)
    => Returned(IF COMMANDS_PER_RESET >= 2 * heartbeats_per_reset(fnio.interval)
                THEN COMMANDS_PER_RESET - 2 * heartbeats_per_reset(fnio.interval)
                ELSE 0)

\* ------------------------------------------------------------------------
\* A Session's outbound rate bucket and Shard::command
\* ------------------------------------------------------------------------
\* heartbeat intervals a Hello frame announces to the Session
RateIntervals == {0, 1, 321, 1000, 1001, 29999, 42500, 60000}

\* the Option<LeakyBucket> of a Session, None while the cell is unset
bucket(s) == IF s.ratelimit = {} THEN None ELSE unwrap(s.ratelimit)

RateInit ==
    /\ ShardUnused
    /\ rate \in {[session |-> new(1, rl), ratelimit_payloads |-> rl, cmd |-> "idle",
                  panicked |-> FALSE, last |-> None, sets |-> 0] : rl \in BOOLEAN}
    /\ fnio = Unused /\ beat = Unused /\ tasks = Unused /\ wire = Unused /\ lat = Unused
    /\ builder = Unused /\ cluster = Unused /\ fwd = Unused
    /\ cache = Unused /\ voice = Unused /\ filter = Unused

\* the Hello handler calls Session::set_heartbeat_interval: the interval is
\* stored, then the allotment is computed (which may panic), then the cell
\* is set
RateSetInterval ==
    /\ ~rate.panicked
    /\ rate.sets < MaxSets
    /\ \E i \in RateIntervals :
       \E o \in call_available_commands_per_interval(i) :
          rate' = IF o = Panic
                  THEN [rate EXCEPT !.session.heartbeat_interval = i,
                                    !.panicked = TRUE,
                                    !.last = Some(i),
                                    !.sets = @ + 1]
                  ELSE [rate EXCEPT !.session = set_heartbeat_interval(@, i),
                                    !.last = Some(i),
                                    !.sets = @ + 1]
    /\ UNCHANGED <<shardvars, fnio, beat, tasks, wire, lat, builder, cluster, fwd, cache, voice, filter>>

\* Shard::command is called: the caller waits for a token of the bucket
RateCommand ==
    /\ rate.cmd = "idle"
    /\ rate' = [rate EXCEPT !.cmd = "waiting"]
    /\ UNCHANGED <<shardvars, fnio, beat, tasks, wire, lat, builder, cluster, fwd, cache, voice, filter>>

\* the caller acquires a token (at once where there is no bucket), sends
\* through the Session and returns
RateAcquire ==
    /\ rate.cmd = "waiting"
    /\ LET b == bucket(rate.session)
       IN IF b = None
          THEN rate' = [rate EXCEPT !.cmd = "returned"]
          ELSE /\ unwrap(b).tokens >= 1
               /\ rate' = [rate EXCEPT !.cmd = "returned",
                                       !.session.ratelimit =
                                           {Some([unwrap(b) EXCEPT !.tokens = @ - 1])}]
    /\ UNCHANGED <<shardvars, fnio, beat, tasks, wire, lat, builder, cluster, fwd, cache, voice, filter>>

\* the refill interval of the bucket elapsed: refill_amount tokens are added,
\* up to max
RateRefill ==
    /\ bucket(rate.session) # None
    /\ LET b == unwrap(bucket(rate.session))
           filled == IF b.tokens + b.refill_amount > b.max THEN b.max
                     ELSE b.tokens + b.refill_amount
       IN /\ b.tokens < b.max
          /\ rate' = [rate EXCEPT !.session.ratelimit = {Some([b EXCEPT !.tokens = filled])}]
    /\ UNCHANGED <<shardvars, fnio, beat, tasks, wire, lat, builder, cluster, fwd, cache, voice, filter>>

\* the caller of Shard::command goes on
RateDone ==
    /\ rate.cmd = "returned"
    /\ rate' = [rate EXCEPT !.cmd = "idle"]
    /\ UNCHANGED <<shardvars, fnio, beat, tasks, wire, lat, builder, cluster, fwd, cache, voice, filter>>

RateNext ==
    \/ RateSetInterval
    \/ RateCommand
    \/ RateAcquire
    \/ RateRefill
    \/ RateDone

\* the bucket's refill timer and the caller of Shard::command are scheduled
RateSpec ==
    /\ RateInit
    /\ [][RateNext]_vars
    /\ WF_vars(RateAcquire)
    /\ WF_vars(RateRefill)

\* C13 as stated: whatever heartbeat interval the Hello frame announced, a
\* command waiting on the outbound rate bucket eventually acquires a token
\* and returns.
C13_CommandReturns == (rate.cmd = "waiting") ~> (rate.cmd = "returned")

\* C17: a Session created with rate limiting disabled has no outbound rate
\* bucket, whatever set_heartbeat_interval calls are made, while
\* heartbeat_interval holds the last value set.
C17_DisabledStaysDisabled ==
    /\ ~rate.ratelimit_payloads =>
          /\ rate.session.ratelimit = {None}
          /\ bucket(rate.session) = None
    /\ rate.last # None => rate.session.heartbeat_interval = unwrap(rate.last)
    /\ rate.last = None => rate.session.heartbeat_interval = 0

\* rate limiting is disabled, two intervals were set, the last one is stored
C17_Witness ==
    /\ ~rate.ratelimit_payloads
    /\ rate.sets = 2
    /\ ~rate.panicked
    /\ rate.session.heartbeat_interval = 29999
    /\ rate.session.ratelimit = {None}

\* C34: handling a Hello frame never panics, whatever heartbeat interval the
\* server supplies: Session::set_heartbeat_interval completes normally for
\* every interval, 0 and very small values included.
C34_HelloNeverPanics == ~rate.panicked

\* C35: with rate limiting enabled, after every set_heartbeat_interval(ms), a
\* second call with a different interval included, the bucket's capacity,
\* initial tokens and refill amount are available_commands_per_interval(ms)
\* and its refill period is 60,000 ms: the bucket is sized for the stored
\* heartbeat interval.
C35_BucketFollowsInterval ==
    (rate.ratelimit_payloads /\ rate.last # None /\ ~rate.panicked) =>
       /\ bucket(rate.session) # None
       /\ LET b == unwrap(bucket(rate.session))
              n == available_commands_per_interval(heartbeat_interval(rate.session))
          IN /\ b.max = n
             /\ b.refill_amount = n
             /\ b.refill_interval = RESET_DURATION_MILLISECONDS
             /\ b.tokens <= n

\* ------------------------------------------------------------------------
\* Session::send and the outbound channel
\* ------------------------------------------------------------------------
\* payloads handed to Session::send; the last one cannot be encoded
WirePayloads ==
    {Identify,
     [op |-> "Heartbeat", id |-> None, seq |-> 1],
     [op |-> "Heartbeat", id |-> None, seq |-> 2],
     [op |-> "Unencodable", id |-> None, seq |-> 0]}

\* wire.chan is the channel behind Session::tx; wire.call records the last
\* call of Session::send: its payload, the queue before it and its Result
WireInit ==
    /\ ShardUnused
    /\ wire = [chan |-> Channel, call |-> None]
    /\ fnio = Unused /\ rate = Unused /\ beat = Unused /\ tasks = Unused /\ lat = Unused
    /\ builder = Unused /\ cluster = Unused /\ fwd = Unused
    /\ cache = Unused /\ voice = Unused /\ filter = Unused

\* a call of Session::send
WireSend ==
    /\ Len(wire.chan.q) < MaxWire
    /\ \E payload \in WirePayloads :
          wire' = [chan |-> send(wire.chan, payload),
                   call |-> Some([payload |-> payload,
                                  before |-> wire.chan,
                                  result |-> send_result(wire.chan, payload)])]
    /\ UNCHANGED <<shardvars, fnio, rate, beat, tasks, lat, builder, cluster, fwd, cache, voice, filter>>

\* the receiving half takes the frame at the front of the channel
WireRecv ==
    /\ wire.chan.receiver
    /\ wire.chan.q # <<>>
    /\ wire' = [chan |-> [wire.chan EXCEPT !.q = Tail(@)], call |-> None]
    /\ UNCHANGED <<shardvars, fnio, rate, beat, tasks, lat, builder, cluster, fwd, cache, voice, filter>>

\* the receiving half of the channel is dropped
WireReceiverDropped ==
    /\ wire.chan.receiver
    /\ wire' = [chan |-> [wire.chan EXCEPT !.receiver = FALSE], call |-> None]
    /\ UNCHANGED <<shardvars, fnio, rate, beat, tasks, lat, builder, cluster, fwd, cache, voice, filter>>

WireNext == WireSend \/ WireRecv \/ WireReceiverDropped
WireSpec == WireInit /\ [][WireNext]_vars

\* the last step was a call of Session::send that returned r
SendReturned(r) == wire.call # None /\ unwrap(wire.call).result = r

\* C19: Session::send fails with Serializing when the payload cannot be
\* encoded and with Sending when the receiver of the outbound channel has
\* been dropped; in both cases nothing is enqueued, and on success exactly
\* one frame, the payload, is enqueued.
C19_SendErrors ==
    wire.call # None =>
       LET c == unwrap(wire.call)
       IN /\ to_vec(c.payload) = None => c.result = "Serializing"
          /\ (to_vec(c.payload) # None /\ ~c.before.receiver) => c.result = "Sending"
          /\ (to_vec(c.payload) # None /\ c.before.receiver) => c.result = "Ok"
          /\ c.result \in {"Serializing", "Sending"} => wire.chan.q = c.before.q
          /\ c.result = "Ok" => wire.chan.q = Append(c.before.q, c.payload)

\* a send failed on a dropped receiver with frames still on the channel
C19_Witness ==
    /\ SendReturned("Sending")
    /\ ~wire.chan.receiver
    /\ Len(wire.chan.q) = 2

\* ------------------------------------------------------------------------
\* Latency (gateway/src/latency.rs)
\* ------------------------------------------------------------------------
\* instants and durations are counted in milliseconds of one clock

\* Latency::RECENT_LEN
RECENT_LEN == 5

\* Latency::new
Latency_new ==
    [heartbeats |-> 0,
     received |-> None,
     recent |-> [i \in 1..RECENT_LEN |-> 0],
     sent |-> None,
     total_time |-> 0]

\* Latency::recent: the iterator over the array, front to back
recent(l) == l.recent
\* Iterator::rev of it
Reverse(a) == [i \in 1..Len(a) |-> a[Len(a) + 1 - i]]

\* Latency::received
received(l) == l.received

\* Latency::sent
sent(l) == l.sent

\* variant: the ring is not rotated, so the new sample replaces the newest
rotate_right_none(a, k) == a

\* slice::rotate_right(k): the element at index i moves to index i + k
rotate_right(a, k) == [i \in 1..Len(a) |-> a[((i - 1 - k) % Len(a)) + 1]]

\* variant: an acknowledgement with no heartbeat sent is not counted
track_received_uncounted(l, now) ==
    IF l.sent = None
    THEN [l EXCEPT !.received = Some(now)]
    ELSE LET duration == now - unwrap(l.sent)
         IN [l EXCEPT !.received = Some(now),
                      !.heartbeats = @ + 1,
                      !.total_time = @ + duration,
                      !.recent = [rotate_right(@, 1) EXCEPT ![1] = duration]]

\* Latency::track_received at the instant now; sent.elapsed() always fits
\* the u64 of milliseconds within the clock's range
track_received(l, now) ==
    IF l.sent = None
    THEN [l EXCEPT !.received = Some(now), !.heartbeats = @ + 1]
    ELSE LET duration == now - unwrap(l.sent)
         IN [l EXCEPT !.received = Some(now),
                      !.heartbeats = @ + 1,
                      !.total_time = @ + duration,
                      !.recent = [rotate_right(@, 1) EXCEPT ![1] = duration]]

\* variant: the last acknowledgement is kept
track_sent_keeping(l, now) == [l EXCEPT !.sent = Some(now)]

\* Latency::track_sent at the instant now
track_sent(l, now) == [l EXCEPT !.received = None, !.sent = Some(now)]

\* lat.latency is a Latency, lat.now the clock, lat.history the samples
\* recorded so far, oldest first
LatInit ==
    /\ ShardUnused
    /\ lat = [latency |-> Latency_new, now |-> 0, history |-> <<>>]
    /\ fnio = Unused /\ rate = Unused /\ beat = Unused /\ tasks = Unused /\ wire = Unused
    /\ builder = Unused /\ cluster = Unused /\ fwd = Unused
    /\ cache = Unused /\ voice = Unused /\ filter = Unused

\* a millisecond passes
LatTick ==
    /\ lat.now < MaxClock
    /\ lat' = [lat EXCEPT !.now = @ + 1]
    /\ UNCHANGED <<shardvars, fnio, rate, beat, tasks, wire, builder, cluster, fwd, cache, voice, filter>>

\* a heartbeat is sent
LatTrackSent ==
    /\ lat' = [lat EXCEPT !.latency = track_sent(@, lat.now)]
    /\ UNCHANGED <<shardvars, fnio, rate, beat, tasks, wire, builder, cluster, fwd, cache, voice, filter>>

\* an acknowledgement is received
LatTrackReceived ==
    /\ lat.latency.heartbeats < MaxBeats
    /\ lat' = [lat EXCEPT
                 !.latency = track_received(@, lat.now),
                 !.history = IF lat.latency.sent = None THEN @
                             ELSE Append(@, lat.now - unwrap(lat.latency.sent))]
    /\ UNCHANGED <<shardvars, fnio, rate, beat, tasks, wire, builder, cluster, fwd, cache, voice, filter>>

LatNext == LatTick \/ LatTrackSent \/ LatTrackReceived
LatSpec == LatInit /\ [][LatNext]_vars

\* the samples the ring can hold: the last RECENT_LEN recorded, oldest first
Stored ==
    LET n == Len(lat.history)
    IN IF n <= RECENT_LEN THEN lat.history ELSE SubSeq(lat.history, n - RECENT_LEN + 1, n)

\* the sequence run is a contiguous part of the sequence a
Within(run, a) ==
    \E i \in 0..(Len(a) - Len(run)) : SubSeq(a, i + 1, i + Len(run)) = run

\* C20 as stated: after any sequence of recorded samples, iterating recent()
\* forward yields the stored samples oldest to newest and iterating it
\* backward yields them newest to oldest.
C20_OldestFirst ==
    /\ Within(Stored, recent(lat.latency))
    /\ Within(Reverse(Stored), Reverse(recent(lat.latency)))

\* ------------------------------------------------------------------------
\* The Heartbeater and the acknowledgements of its heartbeats
\* ------------------------------------------------------------------------
\* beat.latency is the Latency the Heartbeater and the Shard share,
\* beat.now the clock, beat.cycle the connection, beat.running whether the
\* Heartbeater task is alive, beat.zombied whether it declared the connection
\* zombied, beat.dues the times a heartbeat was due; beat.outstanding records
\* that the last heartbeat sent has not been acknowledged
BeatInit ==
    /\ ShardUnused
    /\ beat = [latency |-> Latency_new, now |-> 0, cycle |-> 1, running |-> TRUE,
               zombied |-> FALSE, outstanding |-> FALSE, dues |-> 0]
    /\ fnio = Unused /\ rate = Unused /\ tasks = Unused /\ wire = Unused /\ lat = Unused
    /\ builder = Unused /\ cluster = Unused /\ fwd = Unused
    /\ cache = Unused /\ voice = Unused /\ filter = Unused

\* the Heartbeater finds no acknowledgement tracked for the heartbeat it sent
Unacknowledged(l) == sent(l) # None /\ received(l) = None

\* a millisecond passes
BeatTick ==
    /\ beat.now < MaxClock
    /\ beat' = [beat EXCEPT !.now = @ + 1]
    /\ UNCHANGED <<shardvars, fnio, rate, tasks, wire, lat, builder, cluster, fwd, cache, voice, filter>>

\* a heartbeat is due: the Heartbeater declares the connection zombied and
\* ends when the last heartbeat is unacknowledged, otherwise it sends the
\* next heartbeat and tracks it
BeatDue ==
    /\ beat.running
    /\ beat.dues < MaxDue
    /\ IF Unacknowledged(beat.latency)
       THEN beat' = [beat EXCEPT !.zombied = TRUE, !.running = FALSE, !.dues = @ + 1]
       ELSE beat' = [beat EXCEPT !.latency = track_sent(@, beat.now),
                                 !.outstanding = TRUE,
                                 !.dues = @ + 1]
    /\ UNCHANGED <<shardvars, fnio, rate, tasks, wire, lat, builder, cluster, fwd, cache, voice, filter>>

\* the Shard reads a HeartbeatAck frame and tracks it
BeatAck ==
    /\ beat.running
    /\ beat.latency.heartbeats < MaxBeats
    /\ beat' = [beat EXCEPT !.latency = track_received(@, beat.now),
                            !.outstanding = FALSE]
    /\ UNCHANGED <<shardvars, fnio, rate, tasks, wire, lat, builder, cluster, fwd, cache, voice, filter>>

\* the Shard, told that the connection is zombied, reconnects: the new
\* connection has a new Session, and Hello starts its Heartbeater
BeatReconnect ==
    /\ beat.zombied
    /\ beat.cycle < MaxCycles
    /\ beat' = [beat EXCEPT !.latency = Latency_new,
                            !.cycle = @ + 1,
                            !.running = TRUE,
                            !.zombied = FALSE,
                            !.outstanding = FALSE]
    /\ UNCHANGED <<shardvars, fnio, rate, tasks, wire, lat, builder, cluster, fwd, cache, voice, filter>>

BeatNext == BeatTick \/ BeatDue \/ BeatAck \/ BeatReconnect
BeatSpec == BeatInit /\ [][BeatNext]_vars /\ WF_vars(BeatReconnect)

\* a heartbeat became due in this step
Due == beat.running /\ beat'.dues = beat.dues + 1

TasksInit ==
    /\ ShardUnused
    /\ tasks = [session |-> new(1, TRUE), running |-> {},
                pc |-> "idle", spawned |-> None, next |-> 1, dropped |-> FALSE]
    /\ fnio = Unused /\ rate = Unused /\ beat = Unused /\ wire = Unused /\ lat = Unused
    /\ builder = Unused /\ cluster = Unused /\ fwd = Unused
    /\ cache = Unused /\ voice = Unused /\ filter = Unused

\* JoinHandle::abort on the handle held, if any
abort(running, handle) == running \ handle

\* the heartbeat intervals of the Hello frames the Session is given
TaskIntervals == {41250, 42500}

\* Hello: set_heartbeat_interval, before start_heartbeater is called
TaskHello ==
    /\ ~tasks.dropped
    /\ tasks.pc = "idle"
    /\ \E i \in TaskIntervals :
          /\ i # heartbeat_interval(tasks.session)
          /\ tasks' = [tasks EXCEPT !.session = set_heartbeat_interval(@, i)]
    /\ UNCHANGED <<shardvars, fnio, rate, beat, wire, lat, builder, cluster, fwd, cache, voice, filter>>

\* start_heartbeater up to tokio::spawn: the new task, built with the
\* interval stored in the Session, is on the runtime
TaskSpawn ==
    /\ ~tasks.dropped
    /\ tasks.pc = "idle"
    /\ tasks.next <= MaxTasks
    /\ LET interval == heartbeat_interval(tasks.session)
           heartbeater == [id |-> tasks.next, interval |-> interval]
       IN tasks' = [tasks EXCEPT !.running = @ \cup {heartbeater},
                                 !.spawned = Some(heartbeater),
                                 !.next = @ + 1,
                                 !.pc = "spawned"]
    /\ UNCHANGED <<shardvars, fnio, rate, beat, wire, lat, builder, cluster, fwd, cache, voice, filter>>

\* the rest of start_heartbeater: the handle is replaced under the lock and
\* the task of the old handle is aborted
TaskReplace ==
    /\ tasks.pc = "spawned"
    /\ tasks' = [tasks EXCEPT
                   !.session.heartbeater_handle = tasks.spawned,
                   !.spawned = None,
                   !.running = abort(@, tasks.session.heartbeater_handle),
                   !.pc = "idle"]
    /\ UNCHANGED <<shardvars, fnio, rate, beat, wire, lat, builder, cluster, fwd, cache, voice, filter>>

\* stop_heartbeater, from the loop or from a caller of shutdown
TaskStop ==
    /\ ~tasks.dropped
    /\ tasks' = [tasks EXCEPT
                   !.session = stop_heartbeater(@),
                   !.running = abort(@, tasks.session.heartbeater_handle)]
    /\ UNCHANGED <<shardvars, fnio, rate, beat, wire, lat, builder, cluster, fwd, cache, voice, filter>>

\* a heartbeater task ends by itself; its handle stays where it is
TaskExit ==
    /\ \E t \in tasks.running : tasks' = [tasks EXCEPT !.running = @ \ {t}]
    /\ UNCHANGED <<shardvars, fnio, rate, beat, wire, lat, builder, cluster, fwd, cache, voice, filter>>

\* Drop for Session: no call is in progress when the Session is destroyed
TaskDrop ==
    /\ ~tasks.dropped
    /\ tasks.pc = "idle"
    /\ tasks' = [tasks EXCEPT
                   !.session = stop_heartbeater(@),
                   !.running = abort(@, tasks.session.heartbeater_handle),
                   !.dropped = TRUE]
    /\ UNCHANGED <<shardvars, fnio, rate, beat, wire, lat, builder, cluster, fwd, cache, voice, filter>>

TasksNext == TaskHello \/ TaskSpawn \/ TaskReplace \/ TaskStop \/ TaskExit \/ TaskDrop
TasksSpec == TasksInit /\ [][TasksNext]_vars

\* C18 as stated: at every point at most one heartbeater task of a Session
\* is running, and none is running after stop_heartbeater or after the
\* Session is destroyed, for any sequence of start/stop calls.
C18_AtMostOneTask ==
    /\ Cardinality(tasks.running) <= 1
    /\ (tasks.pc = "idle" /\ tasks.session.heartbeater_handle = None) => tasks.running = {}
    /\ tasks.dropped => tasks.running = {}

\* ------------------------------------------------------------------------
\* The contents of the recent-latency ring
\* ------------------------------------------------------------------------
\* how often the value v occurs in the sequence a
Count(a, v) == Cardinality({i \in 1..Len(a) : a[i] = v})

\* the sequences a and b hold the same values, each as often
SameSamples(a, b) ==
    /\ Len(a) = Len(b)
    /\ \A i \in 1..Len(a) : Count(a, a[i]) = Count(b, a[i])

\* the stored samples, with Duration::ZERO for the slots never written
StoredPadded == Stored \o [i \in 1..(RECENT_LEN - Len(Stored)) |-> 0]

\* C21: the recent-latency ring always holds exactly the 5 most recently
\* recorded samples (a new sample evicts the oldest one and no other), and
\* its length stays 5 after any sequence of track_sent/track_received calls.
C21_FiveMostRecent ==
    /\ Len(recent(lat.latency)) = RECENT_LEN
    /\ SameSamples(recent(lat.latency), StoredPadded)

\* a sixth sample evicted the first one, the only sample of 3 ms
C21_Witness ==
    /\ Len(lat.history) = RECENT_LEN + 1
    /\ lat.history[1] = 3
    /\ 3 \notin {recent(lat.latency)[i] : i \in 1..RECENT_LEN}
    /\ lat.history[RECENT_LEN + 1] = 0

\* ------------------------------------------------------------------------
\* The effects of track_received and track_sent
\* ------------------------------------------------------------------------
\* the values the ring holds
Samples(l) == {recent(l)[i] : i \in 1..Len(recent(l))}

C38_OneSamplePerHeartbeat ==
    [][(LatTrackReceived /\ sent(lat.latency) # None /\ received(lat.latency) # None) =>
          /\ lat'.latency.total_time = lat.latency.total_time
          /\ recent(lat'.latency) = recent(lat.latency)
          /\ lat'.history = lat.history]_vars

\* ------------------------------------------------------------------------
\* ShardBuilder (shard/builder.rs)
\* ------------------------------------------------------------------------
\* ShardBuilder::new
ShardBuilder_new == [large_threshold |-> 50, ratelimit_payloads |-> TRUE, shard |-> <<0, 1>>]

\* what a call on the builder gives: kind is "Ok" with the builder in value,
\* "IdTooLarge" with the id and total of the error, or "panic"
Outcome(kind, i, t, value) == [kind |-> kind, id |-> i, total |-> t, value |-> value]

\* variant: an id equal to the total is accepted
ShardBuilder_shard_inclusive(b, shard_id, shard_total) ==
    IF shard_id > shard_total
    THEN Outcome("IdTooLarge", shard_id, shard_total, None)
    ELSE Outcome("Ok", 0, 0, Some([b EXCEPT !.shard = <<shard_id, shard_total>>]))

\* ShardBuilder::shard
ShardBuilder_shard(b, shard_id, shard_total) ==
    IF shard_id >= shard_total
    THEN Outcome("IdTooLarge", shard_id, shard_total, None)
    ELSE Outcome("Ok", 0, 0, Some([b EXCEPT !.shard = <<shard_id, shard_total>>]))

\* ShardBuilder::large_threshold
large_threshold(b, value) ==
    IF value <= 49 THEN Outcome("panic", 0, 0, None)
    ELSE IF value <= 250 THEN Outcome("Ok", 0, 0, Some([b EXCEPT !.large_threshold = value]))
    ELSE Outcome("panic", 0, 0, None)

\* ShardBuilder::ratelimit_payloads
ratelimit_payloads(b, value) == Outcome("Ok", 0, 0, Some([b EXCEPT !.ratelimit_payloads = value]))

\* the arguments the builder's methods are called with
ShardArgs == 0..MaxShards
Thresholds == {0, 49, 50, 51, 100, 250, 251, 300}

\* builder.b is the ShardBuilder the caller holds (None once a call consumed
\* it without giving it back), builder.call the last call and builder.out
\* what that call gave
BuilderInit ==
    /\ ShardUnused
    /\ builder = [b |-> Some(ShardBuilder_new), call |-> None, out |-> None]
    /\ fnio = Unused /\ rate = Unused /\ beat = Unused /\ tasks = Unused
    /\ wire = Unused /\ lat = Unused /\ cluster = Unused /\ fwd = Unused
    /\ cache = Unused /\ voice = Unused /\ filter = Unused

\* the caller's next state after a call that gave out
Called(op, a1, a2, out) ==
    builder' = [b |-> out.value,
                call |-> Some([op |-> op, a1 |-> a1, a2 |-> a2]),
                out |-> Some(out)]

BuilderShard ==
    /\ builder.b # None
    /\ \E shard_id \in ShardArgs, shard_total \in ShardArgs :
          Called("shard", shard_id, shard_total,
                 ShardBuilder_shard(unwrap(builder.b), shard_id, shard_total))
    /\ UNCHANGED <<shardvars, fnio, rate, beat, tasks, wire, lat, cluster, fwd, cache, voice, filter>>

BuilderLargeThreshold ==
    /\ builder.b # None
    /\ \E value \in Thresholds :
          Called("large_threshold", value, 0, large_threshold(unwrap(builder.b), value))
    /\ UNCHANGED <<shardvars, fnio, rate, beat, tasks, wire, lat, cluster, fwd, cache, voice, filter>>

BuilderRatelimitPayloads ==
    /\ builder.b # None
    /\ \E value \in BOOLEAN :
          /\ value # unwrap(builder.b).ratelimit_payloads
          /\ Called("ratelimit_payloads", 0, 0, ratelimit_payloads(unwrap(builder.b), value))
    /\ UNCHANGED <<shardvars, fnio, rate, beat, tasks, wire, lat, cluster, fwd, cache, voice, filter>>

BuilderNext == BuilderShard \/ BuilderLargeThreshold \/ BuilderRatelimitPayloads
BuilderSpec == BuilderInit /\ [][BuilderNext]_vars

\* the last call on the builder was op(a1, a2)
LastCall(op, a1, a2) == builder.call = Some([op |-> op, a1 |-> a1, a2 |-> a2])

\* C23: ShardBuilder::shard(index, total) returns an IdTooLarge error carrying
\* index and total for every pair with index >= total (including total = 0)
\* and succeeds, storing [index, total], for every pair with index < total,
\* including (0, 1).
C23_ShardId ==
    \A index \in ShardArgs, total \in ShardArgs :
       LastCall("shard", index, total) =>
          IF index >= total
          THEN builder.out = Some(Outcome("IdTooLarge", index, total, None))
          ELSE /\ unwrap(builder.out).kind = "Ok"
               /\ builder.b # None
               /\ unwrap(builder.b).shard = <<index, total>>

\* shard(0, 0) was refused with the error carrying 0 and 0
C23_Witness ==
    /\ LastCall("shard", 0, 0)
    /\ builder.out = Some(Outcome("IdTooLarge", 0, 0, None))

\* C24 as stated: a large-member threshold below 50 or above 250 is returned
\* to the caller as an error value; values 50 through 250 inclusive are
\* accepted and stored.
C24_LargeThreshold ==
    \A value \in Thresholds :
       LastCall("large_threshold", value, 0) =>
          IF value < 50 \/ value > 250
          THEN unwrap(builder.out).kind \notin {"Ok", "panic"}
          ELSE /\ unwrap(builder.out).kind = "Ok"
               /\ builder.b # None
               /\ unwrap(builder.b).large_threshold = value

\* ------------------------------------------------------------------------
\* Cluster (cluster/impl.rs)
\* ------------------------------------------------------------------------
\* sharding schemes: the shard indices a Cluster manages and the total
ShardSchemes ==
    {[ids |-> {0}, total |-> 1], [ids |-> {0, 1}, total |-> 2], [ids |-> {1}, total |-> 3]}

\* Shard::new_with_config as the Cluster sees the Shard: its Config, whether it
\* is "new", "running" or "shutdown", the channel behind its Session, the
\* (session_id, sequence) pair its Session holds and the events it emitted
ClusterShard(shard_config) ==
    [config |-> shard_config, state |-> "new", chan |-> ClosedChannel,
     session |-> None, emitted |-> 0]

\* ShardEventsWithId::new(idx, stream): the stream of a shard with the id its
\* events are tagged with
ShardEventsWithId(idx, stream) == [id |-> idx, events |-> stream]

\* variant: every stream is tagged with the total of the scheme
Cluster_new_with_config_total(scheme, resume_sessions, shard_config) ==
    [shards |-> [idx \in scheme.ids |->
                    ClusterShard(new_with_config(resume_sessions, shard_config,
                                                 idx, scheme.total))],
     streams |-> [idx \in scheme.ids |-> ShardEventsWithId(scheme.total, <<>>)]]

\* Cluster::new_with_config: one Shard per index of the scheme, inserted at
\* its index, and the stream of that Shard tagged with that index
Cluster_new_with_config(scheme, resume_sessions, shard_config) ==
    [shards |-> [idx \in scheme.ids |->
                    ClusterShard(new_with_config(resume_sessions, shard_config,
                                                 idx, scheme.total))],
     streams |-> [idx \in scheme.ids |-> ShardEventsWithId(idx, <<>>)]]

\* variant: a missing shard is replaced by some managed shard
Cluster_shard_any(shards, i) ==
    IF i \in DOMAIN shards THEN Some(i) ELSE Some(CHOOSE j \in DOMAIN shards : TRUE)

\* Cluster::shard: the key of the shard in the map, if it is managed
Cluster_shard(shards, i) == IF i \in DOMAIN shards THEN Some(i) ELSE None

\* UnboundedSender::send of a frame that is already encoded
tx_send(chan, message) ==
    IF chan.receiver THEN [chan EXCEPT !.q = Append(@, message)] ELSE chan

\* Shard::command: the value is encoded and sent through the Session
Shard_command(sh, value) ==
    [result |-> send_result(sh.chan, value),
     shard |-> [sh EXCEPT !.chan = send(@, value)]]

\* Shard::send: the raw message goes to the same channel without encoding
Shard_send(sh, message) ==
    [result |-> IF sh.chan.receiver THEN "Ok" ELSE "Sending",
     shard |-> [sh EXCEPT !.chan = tx_send(@, message)]]

\* the Result of a delegated call as the Cluster returns it: any failure of
\* the shard becomes kind Sending with the cause as its source
wrap(res) ==
    IF res = "Ok" THEN Outcome("Ok", 0, 0, None)
    ELSE Outcome("Sending", 0, 0, Some(res))

\* Cluster::command
Cluster_command(shards, i, value) ==
    LET found == Cluster_shard(shards, i)
    IN IF found = None
       THEN [out |-> Outcome("ShardNonexistent", i, 0, None), shards |-> shards]
       ELSE LET r == Shard_command(shards[unwrap(found)], value)
            IN [out |-> wrap(r.result),
                shards |-> [shards EXCEPT ![unwrap(found)] = r.shard]]

\* Cluster::send
Cluster_send(shards, i, message) ==
    LET found == Cluster_shard(shards, i)
    IN IF found = None
       THEN [out |-> Outcome("ShardNonexistent", i, 0, None), shards |-> shards]
       ELSE LET r == Shard_send(shards[unwrap(found)], message)
            IN [out |-> wrap(r.result),
                shards |-> [shards EXCEPT ![unwrap(found)] = r.shard]]

\* Shard::shutdown as the Cluster sees it
Shard_shutdown(sh) ==
    [sh EXCEPT !.state = "shutdown", !.chan = ClosedChannel, !.session = None]

\* Shard::shutdown_resumable: the shard's id and the pair its Session held
Shard_shutdown_resumable(sh) == <<sh.config.shard[1], sh.session>>

\* variant: every shard is collected, with an empty pair where it had none
down_resumable_all(shards) ==
    [i \in {Shard_shutdown_resumable(shards[k])[1] : k \in DOMAIN shards} |->
        LET k == CHOOSE k \in DOMAIN shards : Shard_shutdown_resumable(shards[k])[1] = i
            s == Shard_shutdown_resumable(shards[k])[2]
        IN IF s = None THEN [session_id |-> 0, sequence |-> 0] ELSE unwrap(s)]

\* Cluster::down_resumable: the pairs (id, session) of the shards whose
\* shutdown_resumable gave Some, collected into a map
down_resumable(shards) ==
    LET pairs == {Shard_shutdown_resumable(shards[k]) : k \in DOMAIN shards}
        some == {p \in pairs : p[2] # None}
    IN [i \in {p[1] : p \in some} |->
          unwrap((CHOOSE p \in some : p[1] = i)[2])]

\* commands and raw messages given to the Cluster
ClusterCommands ==
    {[op |-> "Command", id |-> None, seq |-> 0],
     [op |-> "Unencodable", id |-> None, seq |-> 0]}
ClusterMessages == {[op |-> "Raw", id |-> None, seq |-> 0]}

\* cluster.shards is the map of the Cluster, cluster.streams the events each
\* shard emitted that the merged stream has not taken yet, cluster.merged the
\* items the merged stream delivered, cluster.call the last call on the
\* Cluster with what it gave in cluster.out, cluster.before the shards as
\* they were when it was made
ClusterInit ==
    /\ ShardUnused
    /\ \E scheme \in ShardSchemes, resume_sessions \in ResumeSessionMaps :
          LET c == Cluster_new_with_config(scheme, resume_sessions, into_config(TRUE))
          IN cluster = [shards |-> c.shards, streams |-> c.streams, merged |-> <<>>,
                        call |-> None, out |-> None, before |-> None]
    /\ fnio = Unused /\ rate = Unused /\ beat = Unused /\ tasks = Unused
    /\ wire = Unused /\ lat = Unused /\ builder = Unused /\ fwd = Unused
    /\ cache = Unused /\ voice = Unused /\ filter = Unused

Managed == DOMAIN cluster.shards

NoCall(c) == [c EXCEPT !.call = None, !.out = None, !.before = None]

\* Cluster::up: every shard is told to start and opens its channel
ClusterUp ==
    /\ \A i \in Managed : cluster.shards[i].state = "new"
    /\ cluster' = [NoCall(cluster) EXCEPT
                     !.shards = [i \in Managed |->
                                   [cluster.shards[i] EXCEPT !.state = "running",
                                                             !.chan = Channel]]]
    /\ UNCHANGED <<shardvars, fnio, rate, beat, tasks, wire, lat, builder, fwd, cache, voice, filter>>

\* the Session of a running shard comes to hold a pair: its resume seed when
\* the connection opens, otherwise the session Ready issues
ClusterHandshake ==
    /\ \E i \in Managed :
          /\ cluster.shards[i].state = "running"
          /\ cluster.shards[i].session = None
          /\ cluster' = [NoCall(cluster) EXCEPT
                           !.shards[i].session =
                              IF config_seed(cluster.shards[i].config) # None
                              THEN config_seed(cluster.shards[i].config)
                              ELSE Some([session_id |-> 1, sequence |-> 0])]
    /\ UNCHANGED <<shardvars, fnio, rate, beat, tasks, wire, lat, builder, fwd, cache, voice, filter>>

\* a running shard emits its next event on its own stream
ClusterEmit ==
    /\ \E i \in Managed :
          /\ cluster.shards[i].state = "running"
          /\ cluster.shards[i].emitted < MaxEvents
          /\ cluster' = [NoCall(cluster) EXCEPT
                           !.shards[i].emitted = @ + 1,
                           !.streams[i].events = Append(@, cluster.shards[i].emitted + 1)]
    /\ UNCHANGED <<shardvars, fnio, rate, beat, tasks, wire, lat, builder, fwd, cache, voice, filter>>

\* the merged stream takes the next event of the stream of shard i and yields
\* it with the id of that stream
Take(i) ==
    /\ cluster.streams[i].events # <<>>
    /\ cluster' = [NoCall(cluster) EXCEPT
                     !.streams[i].events = Tail(@),
                     !.merged = Append(@, <<cluster.streams[i].id,
                                            Head(cluster.streams[i].events)>>)]
    /\ UNCHANGED <<shardvars, fnio, rate, beat, tasks, wire, lat, builder, fwd, cache, voice, filter>>

\* Events::next on the merged stream: SelectAll yields the item of a stream
\* that has one ready
ClusterEventsNext == \E i \in Managed : Take(i)

ClusterCommand ==
    /\ \E i \in ShardArgs, value \in ClusterCommands :
          LET r == Cluster_command(cluster.shards, i, value)
          IN /\ \A k \in Managed : Len(r.shards[k].chan.q) <= MaxQueued
             /\ cluster' = [cluster EXCEPT
                              !.shards = r.shards,
                              !.call = Some([op |-> "command", id |-> i, payload |-> value]),
                              !.out = Some(r.out),
                              !.before = Some(cluster.shards)]
    /\ UNCHANGED <<shardvars, fnio, rate, beat, tasks, wire, lat, builder, fwd, cache, voice, filter>>

ClusterSend ==
    /\ \E i \in ShardArgs, message \in ClusterMessages :
          LET r == Cluster_send(cluster.shards, i, message)
          IN /\ \A k \in Managed : Len(r.shards[k].chan.q) <= MaxQueued
             /\ cluster' = [cluster EXCEPT
                              !.shards = r.shards,
                              !.call = Some([op |-> "send", id |-> i, payload |-> message]),
                              !.out = Some(r.out),
                              !.before = Some(cluster.shards)]
    /\ UNCHANGED <<shardvars, fnio, rate, beat, tasks, wire, lat, builder, fwd, cache, voice, filter>>

\* Cluster::down
ClusterDown ==
    /\ \E i \in Managed : cluster.shards[i].state # "shutdown"
    /\ cluster' = [NoCall(cluster) EXCEPT
                     !.shards = [i \in Managed |-> Shard_shutdown(cluster.shards[i])]]
    /\ UNCHANGED <<shardvars, fnio, rate, beat, tasks, wire, lat, builder, fwd, cache, voice, filter>>

\* Cluster::down_resumable
ClusterDownResumable ==
    /\ \E i \in Managed : cluster.shards[i].state # "shutdown"
    /\ cluster' = [cluster EXCEPT
                     !.shards = [i \in Managed |-> Shard_shutdown(cluster.shards[i])],
                     !.call = Some([op |-> "down_resumable", id |-> 0, payload |-> NoFrame]),
                     !.out = Some(Outcome("Ok", 0, 0, Some(down_resumable(cluster.shards)))),
                     !.before = Some(cluster.shards)]
    /\ UNCHANGED <<shardvars, fnio, rate, beat, tasks, wire, lat, builder, fwd, cache, voice, filter>>

ClusterNext ==
    \/ ClusterUp \/ ClusterHandshake \/ ClusterEmit \/ ClusterEventsNext
    \/ ClusterCommand \/ ClusterSend \/ ClusterDown \/ ClusterDownResumable
ClusterSpec ==
    /\ ClusterInit /\ [][ClusterNext]_vars
    /\ \A i \in 0..MaxShards : WF_vars(i \in Managed /\ Take(i))

\* the last call on the Cluster was op with the id i
ClusterCalled(op, i) ==
    cluster.call # None /\ unwrap(cluster.call).op = op /\ unwrap(cluster.call).id = i

\* the channels of the shards other than i are as they were before the call
OthersUntouched(i) ==
    \A k \in Managed \ {i} : cluster.shards[k].chan = unwrap(cluster.before)[k].chan

\* C25: Cluster::command(id, v) and Cluster::send(id, m) with an id absent
\* from the managed shard map fail with ShardNonexistent carrying that id and
\* enqueue nothing on any shard; with a present id they deliver to that shard
\* only, and an underlying send failure is returned as kind Sending wrapping
\* the cause.
C25_ClusterRouting ==
    \A i \in ShardArgs, op \in {"command", "send"} :
       ClusterCalled(op, i) =>
          LET out == unwrap(cluster.out)
              payload == unwrap(cluster.call).payload
          IN IF i \notin Managed
             THEN /\ out = Outcome("ShardNonexistent", i, 0, None)
                  /\ OthersUntouched(i)
             ELSE LET was == unwrap(cluster.before)[i].chan
                      now == cluster.shards[i].chan
                      cause == IF op = "command" /\ to_vec(payload) = None THEN "Serializing"
                               ELSE IF ~was.receiver THEN "Sending"
                               ELSE "Ok"
                  IN /\ OthersUntouched(i)
                     /\ cause = "Ok" => out.kind = "Ok" /\ now.q = Append(was.q, payload)
                     /\ cause # "Ok" => out = Outcome("Sending", 0, 0, Some(cause)) /\ now = was

\* a command to an index outside the map of a Cluster of two running shards
\* was refused
C25_Witness ==
    /\ ClusterCalled("command", 2)
    /\ Managed = {0, 1}
    /\ \A k \in Managed : cluster.shards[k].state = "running"
    /\ cluster.out = Some(Outcome("ShardNonexistent", 2, 0, None))

\* C26: Cluster::down_resumable shuts down every managed shard and returns a
\* map whose keys are exactly the indices of the shards that had a resumable
\* session, each mapped to that shard's own ResumeSession; shards without one
\* are omitted and no index outside the managed map appears.
C26_DownResumable ==
    ClusterCalled("down_resumable", 0) =>
       LET returned == unwrap(unwrap(cluster.out).value)
           before == unwrap(cluster.before)
       IN /\ \A i \in Managed : cluster.shards[i].state = "shutdown"
          /\ DOMAIN returned = {i \in Managed : before[i].session # None}
          /\ \A i \in DOMAIN returned : returned[i] = unwrap(before[i].session)

\* of two shards the one that resumed its seed is in the map returned, the
\* one that never completed a handshake is not
C26_Witness ==
    /\ ClusterCalled("down_resumable", 0)
    /\ Managed = {0, 1}
    /\ unwrap(cluster.before)[1].session = None
    /\ unwrap(cluster.before)[1].state = "running"
    /\ unwrap(unwrap(cluster.out).value) = (0 :> [session_id |-> 2, sequence |-> 2])

\* the events the merged stream delivered with the tag i, in its order
DeliveredOf(i) ==
    LET Tagged(item) == item[1] = i
        items == SelectSeq(cluster.merged, Tagged)
    IN [k \in 1..Len(items) |-> items[k][2]]

\* the events shard i emitted, in the order of its own stream
EmittedOf(i) == [n \in 1..cluster.shards[i].emitted |-> n]

\* C27: the Cluster's merged event stream delivers every event of every
\* managed shard exactly once, tagged with the index of the shard that
\* produced it, and for each shard the events appear in the merged stream in
\* the same relative order as in that shard's own stream; no order is
\* guaranteed between different shards.
C27_MergedStream ==
    /\ [](\A k \in 1..Len(cluster.merged) : cluster.merged[k][1] \in Managed)
    /\ [](\A i \in Managed :
             DeliveredOf(i) \o cluster.streams[i].events = EmittedOf(i))
    /\ \A i \in 0..MaxShards, n \in 1..MaxEvents :
          (i \in Managed /\ cluster.shards[i].emitted >= n)
             ~> (\E k \in 1..Len(cluster.merged) : cluster.merged[k] = <<i, n>>)

\* the events of two shards were delivered interleaved, the second shard's
\* first event before the first shard's
C27_Witness ==
    /\ Managed = {0, 1}
    /\ cluster.merged = << <<1, 1>>, <<0, 1>>, <<1, 2>>, <<0, 2>> >>

\* ------------------------------------------------------------------------
\* The Socket Forwarder's loop (shard/processor/socket_forwarder.rs)
\* ------------------------------------------------------------------------
\* fwd.rx is the outbound channel (its queue and whether a sender is alive),
\* fwd.tx the inbound channel (its queue and whether its receiver is alive),
\* fwd.socket the socket: the frames it has ready for stream.next(), its
\* state "open", "ended" or "errored", the frames written to it and whether
\* stream.close was called; fwd.task is "running" or "done", fwd.why what
\* ended the task, fwd.idle the time the current select has waited, and
\* fwd.sent and fwd.received are all frames ever put on the outbound channel
\* and delivered by the socket; fwd.raced records that stream.next() had a
\* frame ready in an iteration that the outbound channel won
FwdInit ==
    /\ ShardUnused
    /\ fwd = [rx |-> [q |-> <<>>, senders |-> TRUE],
              tx |-> [q |-> <<>>, receiver |-> TRUE],
              socket |-> [incoming |-> <<>>, state |-> "open", written |-> <<>>,
                          closed |-> FALSE],
              task |-> "running", why |-> "none", idle |-> 0,
              sent |-> <<>>, received |-> <<>>, raced |-> FALSE]
    /\ fnio = Unused /\ rate = Unused /\ beat = Unused /\ tasks = Unused
    /\ wire = Unused /\ lat = Unused /\ builder = Unused /\ cluster = Unused
    /\ cache = Unused /\ voice = Unused /\ filter = Unused

\* self.rx.recv() is ready: a frame is queued, or every sender is gone
RxReady(f) == f.rx.q # <<>> \/ ~f.rx.senders

\* self.stream.next() is ready: a frame arrived, or the socket ended or failed
SocketReady(f) == f.socket.incoming # <<>> \/ f.socket.state # "open"

\* variant: the frame the dropped stream.next() had ready is lost
cancel_next_consuming(socket) ==
    IF socket.incoming # <<>> THEN [socket EXCEPT !.incoming = Tail(@)] ELSE socket

\* the stream.next() future that lost the select is dropped at the end of the
\* iteration: what the socket has ready stays ready
cancel_next(socket) == socket

\* variant: the timeout of the last iteration goes on
new_timeout_kept(idle) == idle

\* timeout(Self::TIMEOUT, ..) is created anew in every iteration
new_timeout(idle) == 0

\* self.stream.send(msg) that succeeds
stream_send(socket, msg) == [socket EXCEPT !.written = Append(@, msg)]

\* variant: the socket is dropped without a close
stream_close_skipped(socket) == socket

\* self.stream.close(None)
stream_close(socket) == [socket EXCEPT !.closed = TRUE]

\* break: the loop is left for the reason why and the task ends
break(f, why) == [f EXCEPT !.task = "done", !.why = why]

\* a Session puts a frame on the outbound channel
FwdEnqueue ==
    /\ fwd.task = "running"
    /\ fwd.rx.senders
    /\ Len(fwd.sent) < MaxRelay
    /\ LET msg == Len(fwd.sent) + 1
       IN fwd' = [fwd EXCEPT !.rx.q = Append(@, msg), !.sent = Append(@, msg)]
    /\ UNCHANGED <<shardvars, fnio, rate, beat, tasks, wire, lat, builder, cluster, cache, voice, filter>>

\* the last sender of the outbound channel is dropped
FwdSendersDropped ==
    /\ fwd.task = "running"
    /\ fwd.rx.senders
    /\ fwd' = [fwd EXCEPT !.rx.senders = FALSE]
    /\ UNCHANGED <<shardvars, fnio, rate, beat, tasks, wire, lat, builder, cluster, cache, voice, filter>>

\* the receiver of the inbound channel is dropped
FwdReceiverDropped ==
    /\ fwd.task = "running"
    /\ fwd.tx.receiver
    /\ fwd' = [fwd EXCEPT !.tx.receiver = FALSE]
    /\ UNCHANGED <<shardvars, fnio, rate, beat, tasks, wire, lat, builder, cluster, cache, voice, filter>>

\* the server's next frame arrives on the socket
FwdSocketFrame ==
    /\ fwd.task = "running"
    /\ fwd.socket.state = "open"
    /\ Len(fwd.received) < MaxRelay
    /\ LET msg == Len(fwd.received) + 1
       IN fwd' = [fwd EXCEPT !.socket.incoming = Append(@, msg),
                             !.received = Append(@, msg)]
    /\ UNCHANGED <<shardvars, fnio, rate, beat, tasks, wire, lat, builder, cluster, cache, voice, filter>>

\* the socket ends, or fails, after the frames it has delivered
FwdSocketDown ==
    /\ fwd.task = "running"
    /\ fwd.socket.state = "open"
    /\ \E state \in {"ended", "errored"} : fwd' = [fwd EXCEPT !.socket.state = state]
    /\ UNCHANGED <<shardvars, fnio, rate, beat, tasks, wire, lat, builder, cluster, cache, voice, filter>>

\* time passes while the select has nothing ready
FwdTick ==
    /\ fwd.task = "running"
    /\ ~RxReady(fwd) /\ ~SocketReady(fwd)
    /\ fwd.idle < MaxIdle
    /\ fwd' = [fwd EXCEPT !.idle = @ + 1]
    /\ UNCHANGED <<shardvars, fnio, rate, beat, tasks, wire, lat, builder, cluster, cache, voice, filter>>

\* Either::Left, Some(msg): the frame is written to the socket; the loop is
\* left when the write fails, as it does on a socket that ended or failed
FwdLeftSome ==
    /\ fwd.task = "running"
    /\ fwd.rx.q # <<>>
    /\ \E ok \in IF fwd.socket.state = "open" THEN BOOLEAN ELSE {FALSE} :
          LET msg == Head(fwd.rx.q)
              taken == [fwd EXCEPT !.rx.q = Tail(@),
                                   !.socket = cancel_next(@),
                                   !.raced = @ \/ fwd.socket.incoming # <<>>]
          IN fwd' = IF ok
                    THEN [taken EXCEPT !.socket = stream_send(@, msg),
                                       !.idle = new_timeout(@)]
                    ELSE break(taken, "write failed")
    /\ UNCHANGED <<shardvars, fnio, rate, beat, tasks, wire, lat, builder, cluster, cache, voice, filter>>

\* Either::Left, None: every sender is gone and the channel is empty; the
\* socket is closed and the loop is left
FwdLeftNone ==
    /\ fwd.task = "running"
    /\ fwd.rx.q = <<>>
    /\ ~fwd.rx.senders
    /\ fwd' = break([fwd EXCEPT !.socket = stream_close(cancel_next(@))],
                    "outbound closed")
    /\ UNCHANGED <<shardvars, fnio, rate, beat, tasks, wire, lat, builder, cluster, cache, voice, filter>>

\* Either::Right, Some(Ok(msg)): the frame is forwarded to the inbound
\* channel; the loop is left when its receiver is gone
FwdRightSome ==
    /\ fwd.task = "running"
    /\ ~RxReady(fwd)
    /\ fwd.socket.incoming # <<>>
    /\ LET msg == Head(fwd.socket.incoming)
           taken == [fwd EXCEPT !.socket.incoming = Tail(@)]
       IN fwd' = IF fwd.tx.receiver
                 THEN [taken EXCEPT !.tx = forward(@, msg), !.idle = new_timeout(@)]
                 ELSE break(taken, "inbound receiver gone")
    /\ UNCHANGED <<shardvars, fnio, rate, beat, tasks, wire, lat, builder, cluster, cache, voice, filter>>

\* Either::Right, Some(Err(source)) or None: the loop is left
FwdRightDown ==
    /\ fwd.task = "running"
    /\ ~RxReady(fwd)
    /\ fwd.socket.incoming = <<>>
    /\ fwd.socket.state # "open"
    /\ fwd' = break(fwd, IF fwd.socket.state = "ended" THEN "socket ended"
                         ELSE "socket errored")
    /\ UNCHANGED <<shardvars, fnio, rate, beat, tasks, wire, lat, builder, cluster, cache, voice, filter>>

\* Err(_): neither future finished within TIMEOUT; the loop is left
FwdTimeout ==
    /\ fwd.task = "running"
    /\ ~RxReady(fwd) /\ ~SocketReady(fwd)
    /\ fwd.idle = MaxIdle
    /\ fwd' = break(fwd, "timed out")
    /\ UNCHANGED <<shardvars, fnio, rate, beat, tasks, wire, lat, builder, cluster, cache, voice, filter>>

\* one iteration of the loop of SocketForwarder::run
FwdIterate == FwdLeftSome \/ FwdLeftNone \/ FwdRightSome \/ FwdRightDown \/ FwdTimeout

FwdNext ==
    \/ FwdEnqueue \/ FwdSendersDropped \/ FwdReceiverDropped \/ FwdSocketFrame
    \/ FwdSocketDown \/ FwdTick
    \/ FwdLeftSome \/ FwdLeftNone \/ FwdRightSome \/ FwdRightDown \/ FwdTimeout
FwdSpec == FwdInit /\ [][FwdNext]_vars /\ WF_vars(FwdIterate)

IsPrefix(a, b) == Len(a) <= Len(b) /\ SubSeq(b, 1, Len(a)) = a

\* C29: while the Socket Forwarder runs, frames taken from the outbound
\* channel are written to the socket in the order they were enqueued and
\* frames read from the socket are forwarded to the inbound channel in the
\* order received, with no frame dropped or duplicated in either direction,
\* including a frame that becomes ready in one direction while the other
\* direction wins the race in the same loop iteration.
C29_RelayInOrder ==
    /\ IsPrefix(fwd.socket.written, fwd.sent)
    /\ IsPrefix(fwd.tx.q, fwd.received)
    /\ fwd.task = "running" =>
          /\ fwd.socket.written \o fwd.rx.q = fwd.sent
          /\ fwd.tx.q \o fwd.socket.incoming = fwd.received

\* every frame of both directions was relayed although the socket had a frame
\* ready in an iteration that the outbound channel won
C29_Witness ==
    /\ fwd.raced
    /\ fwd.task = "running"
    /\ fwd.socket.written = <<1, 2, 3>>
    /\ fwd.tx.q = <<1, 2, 3>>

\* the reasons for which the loop of SocketForwarder::run is left
Causes ==
    {"write failed", "outbound closed", "inbound receiver gone", "socket ended",
     "socket errored", "timed out"}

\* a frame was relayed in this step: written to the socket, or forwarded to
\* the inbound channel
Relayed ==
    \/ Len(fwd'.socket.written) > Len(fwd.socket.written)
    \/ Len(fwd'.tx.q) > Len(fwd.tx.q)

\* C30: the Socket Forwarder terminates exactly when one of these occurs: a
\* socket write fails, the outbound channel is closed, the inbound channel's
\* receiver is gone, the socket ends or errors, or neither direction produces
\* a frame within the idle timeout; a frame successfully relayed in either
\* direction never terminates it and restarts the idle timeout.
C30_Termination ==
    /\ [](fwd.task = "done" <=> fwd.why \in Causes)
    /\ [][(fwd.task = "running" /\ fwd'.task = "done") =>
            /\ ~Relayed
            /\ fwd'.why = "write failed" => fwd.rx.q # <<>>
            /\ fwd'.why = "outbound closed" => ~fwd.rx.senders /\ fwd.rx.q = <<>>
            /\ fwd'.why = "inbound receiver gone" =>
                  ~fwd.tx.receiver /\ fwd.socket.incoming # <<>>
            /\ fwd'.why = "socket ended" =>
                  fwd.socket.state = "ended" /\ fwd.socket.incoming = <<>>
            /\ fwd'.why = "socket errored" =>
                  fwd.socket.state = "errored" /\ fwd.socket.incoming = <<>>
            /\ fwd'.why = "timed out" =>
                  ~RxReady(fwd) /\ ~SocketReady(fwd) /\ fwd.idle = MaxIdle]_vars
    /\ [][Relayed => fwd'.task = "running" /\ fwd'.idle = 0]_vars
    /\ (fwd.task = "running" /\ ~fwd.rx.senders) ~> (fwd.task = "done")
    /\ (fwd.task = "running" /\ fwd.socket.state # "open") ~> (fwd.task = "done")
    /\ (fwd.task = "running" /\ ~RxReady(fwd) /\ ~SocketReady(fwd) /\ fwd.idle = MaxIdle)
          ~> (fwd.task = "done" \/ RxReady(fwd) \/ SocketReady(fwd))

\* a frame was relayed in each direction, and later the task ended on the
\* idle timeout
C30_Witness ==
    /\ fwd.why = "timed out"
    /\ fwd.socket.written = <<1>>
    /\ fwd.tx.q = <<1>>
    /\ fwd.idle = MaxIdle

(***************************************************************************)
(* InMemoryCache (twilight-cache-inmemory/src/lib.rs) with the message     *)
(* handlers of event/message.rs.  A concurrent map is a function on the    *)
(* set of its keys; a channel's VecDeque of message ids is a sequence      *)
(* whose head is the front.                                                *)
(***************************************************************************)
EmptyMap == [k \in {} |-> {}]
is_empty(m) == DOMAIN m = {}
map_insert(m, k, v) == [x \in DOMAIN m \cup {k} |-> IF x = k THEN v ELSE m[x]]
map_remove(m, k) == [x \in DOMAIN m \ {k} |-> m[x]]
or_default(m, k, d) == IF k \in DOMAIN m THEN m[k] ELSE d

ResourceTypes == {"MESSAGE", "USER", "MEMBER"}

\* InMemoryCacheBuilder: new, resource_types, message_cache_size, build
InMemoryCacheBuilder_new == [resource_types |-> ResourceTypes, message_cache_size |-> 100]
InMemoryCacheBuilder_resource_types(b, rt) == [b EXCEPT !.resource_types = rt]
InMemoryCacheBuilder_message_cache_size(b, n) == [b EXCEPT !.message_cache_size = n]

\* InMemoryCache::new_with_config: the given config, every other field Default
InMemoryCache_new_with_config(cfg) ==
    [config |-> cfg,
     channels |-> EmptyMap, channel_messages |-> EmptyMap, current_user |-> None,
     emojis |-> EmptyMap, guilds |-> EmptyMap, guild_channels |-> EmptyMap,
     guild_emojis |-> EmptyMap, guild_integrations |-> EmptyMap,
     guild_members |-> EmptyMap, guild_presences |-> EmptyMap,
     guild_roles |-> EmptyMap, guild_stage_instances |-> EmptyMap,
     guild_stickers |-> EmptyMap, integrations |-> EmptyMap, members |-> EmptyMap,
     messages |-> EmptyMap, presences |-> EmptyMap, roles |-> EmptyMap,
     stage_instances |-> EmptyMap, stickers |-> EmptyMap,
     unavailable_guilds |-> EmptyMap, users |-> EmptyMap, user_guilds |-> EmptyMap,
     voice_state_channels |-> EmptyMap, voice_state_guilds |-> EmptyMap,
     voice_states |-> EmptyMap]
InMemoryCacheBuilder_build(b) == InMemoryCache_new_with_config(b)

wants(c, resource_type) == resource_type \in c.config.resource_types

\* InMemoryCache::clear: the fields the method names, in its order
InMemoryCache_clear(c) ==
    [c EXCEPT !.channels = EmptyMap, !.channel_messages = EmptyMap,
              !.current_user = None,
              !.emojis = EmptyMap, !.guilds = EmptyMap, !.guild_channels = EmptyMap,
              !.guild_emojis = EmptyMap, !.guild_integrations = EmptyMap,
              !.guild_members = EmptyMap, !.guild_presences = EmptyMap,
              !.guild_roles = EmptyMap, !.guild_stage_instances = EmptyMap,
              !.guild_stickers = EmptyMap, !.integrations = EmptyMap,
              !.members = EmptyMap, !.messages = EmptyMap, !.presences = EmptyMap,
              !.roles = EmptyMap, !.stickers = EmptyMap,
              !.unavailable_guilds = EmptyMap, !.users = EmptyMap,
              !.voice_state_channels = EmptyMap, !.voice_state_guilds = EmptyMap,
              !.voice_states = EmptyMap]

\* cache_user(author, guild_id) as tests::message_create observes it: the user is
\* cached and, with a guild id, the guild is listed under user_guilds[user]
cache_user(c, user, guild_id) ==
    [c EXCEPT !.users = map_insert(@, user, user),
              !.user_guilds = IF guild_id = None THEN @
                              ELSE map_insert(@, user,
                                     or_default(@, user, {}) \cup guild_id)]

\* cache_borrowed_partial_member(guild_id, member, user_id) as tests::message_create
\* observes it: the member is cached under (guild, user)
cache_borrowed_partial_member(c, guild_id, user_id) ==
    [c EXCEPT !.members = map_insert(@, <<guild_id, user_id>>, user_id)]

pop_back(q) == SubSeq(q, 1, Len(q) - 1)
push_front(q, x) == <<x>> \o q
position(q, x) == IF \E i \in 1..Len(q) : q[i] = x
                  THEN {CHOOSE i \in 1..Len(q) : q[i] = x /\ \A j \in 1..(i-1) : q[j] # x}
                  ELSE None
seq_remove(q, idx) == SubSeq(q, 1, idx - 1) \o SubSeq(q, idx + 1, Len(q))

\* a message: id, channel_id, author and the guild id with the partial member, if any
Message(mid, channel_id, author, guild_id, member) ==
    [id |-> mid, channel_id |-> channel_id, author |-> author,
     guild_id |-> guild_id, member |-> member]

\* impl UpdateCache for MessageCreate
MessageCreate_update(c, msg) ==
    LET c1 == IF wants(c, "USER") THEN cache_user(c, msg.author, msg.guild_id) ELSE c
        c2 == IF msg.member # None /\ msg.guild_id # None /\ wants(c1, "MEMBER")
              THEN cache_borrowed_partial_member(c1, unwrap(msg.guild_id), msg.author)
              ELSE c1
        channel_messages == or_default(c2.channel_messages, msg.channel_id, <<>>)
        full == Len(channel_messages) >= c2.config.message_cache_size
        popped == full /\ channel_messages # <<>>
        kept == IF popped THEN pop_back(channel_messages) ELSE channel_messages
        msgs == IF popped THEN map_remove(c2.messages, channel_messages[Len(channel_messages)])
                ELSE c2.messages
    IN  IF ~wants(c2, "MESSAGE") THEN c2
        ELSE [c2 EXCEPT !.channel_messages = map_insert(@, msg.channel_id,
                                                        push_front(kept, msg.id)),
                        !.messages = map_insert(msgs, msg.id, msg)]

\* impl UpdateCache for MessageDelete
MessageDelete_update(c, mid, channel_id) ==
    LET channel_messages == or_default(c.channel_messages, channel_id, <<>>)
        idx == position(channel_messages, mid)
    IN  IF ~wants(c, "MESSAGE") THEN c
        ELSE [c EXCEPT !.messages = map_remove(@, mid),
                       !.channel_messages = map_insert(@, channel_id,
                            IF idx = None THEN channel_messages
                            ELSE seq_remove(channel_messages, unwrap(idx)))]

CacheChannels == {1, 2}
CacheSizes == {0, 1, 2}
CacheResourceSets == {ResourceTypes, {"MESSAGE"}, {"USER", "MEMBER"}}

\* the cache as built, the ids created per channel in creation order, and the last call
Cached(c, created, last, creates_only) ==
    [c |-> c, created |-> created, last |-> last, creates_only |-> creates_only]

CacheInit ==
    /\ ShardUnused
    /\ fnio = Unused /\ rate = Unused /\ beat = Unused /\ tasks = Unused
    /\ wire = Unused /\ lat = Unused /\ builder = Unused /\ cluster = Unused
    /\ fwd = Unused /\ voice = Unused /\ filter = Unused
    /\ \E n \in CacheSizes, rt \in CacheResourceSets :
         cache = Cached(
            InMemoryCacheBuilder_build(
               InMemoryCacheBuilder_message_cache_size(
                  InMemoryCacheBuilder_resource_types(InMemoryCacheBuilder_new, rt), n)),
            [ch \in CacheChannels |-> <<>>], "build", TRUE)

Created == Len(cache.created[1]) + Len(cache.created[2])

\* InMemoryCache::update with a MessageCreate carrying a new message id
CacheMessageCreate ==
    /\ Created < MaxMessages
    /\ \E ch \in CacheChannels, guild_id \in {None, Some(1)}, member \in {None, Some(3)} :
         LET msg == Message(Created + 1, ch, 3, guild_id, member)
         IN  cache' = Cached(MessageCreate_update(cache.c, msg),
                             [cache.created EXCEPT ![ch] = Append(@, msg.id)],
                             "create", cache.creates_only)
    /\ UNCHANGED <<shardvars, fnio, rate, beat, tasks, wire, lat, builder, cluster, fwd,
                   voice, filter>>

\* InMemoryCache::update with a MessageDelete
CacheMessageDelete ==
    /\ \E ch \in CacheChannels, mid \in 1..MaxMessages :
         /\ mid <= Created
         /\ cache' = Cached(MessageDelete_update(cache.c, mid, ch), cache.created,
                            "delete", FALSE)
    /\ UNCHANGED <<shardvars, fnio, rate, beat, tasks, wire, lat, builder, cluster, fwd,
                   voice, filter>>

\* InMemoryCache::clear
CacheClear ==
    /\ cache.last # "clear"
    /\ cache' = Cached(InMemoryCache_clear(cache.c), [ch \in CacheChannels |-> <<>>],
                       "clear", TRUE)
    /\ UNCHANGED <<shardvars, fnio, rate, beat, tasks, wire, lat, builder, cluster, fwd,
                   voice, filter>>

CacheNext == CacheMessageCreate \/ CacheMessageDelete \/ CacheClear
CacheSpec == CacheInit /\ [][CacheNext]_vars

\* C31: after clear() the cache is in the state of a newly created empty cache:
\* every resource map and index is empty and the current user is absent.
C31_ClearEmpties ==
    cache.last = "clear" => cache.c = InMemoryCache_new_with_config(cache.c.config)

Min2(a, b) == IF a < b THEN a ELSE b
Listed(c, ch) == or_default(c.channel_messages, ch, <<>>)
NewestFirst(list, cr) ==
    \A i \in 1..Len(list) : i <= Len(cr) /\ list[i] = cr[Len(cr) + 1 - i]
MessageWindow(c, created) ==
    \A ch \in CacheChannels :
        /\ Len(Listed(c, ch)) <= c.config.message_cache_size
        /\ Len(Listed(c, ch)) = Min2(c.config.message_cache_size, Len(created[ch]))
        /\ NewestFirst(Listed(c, ch), created[ch])
        /\ \A mid \in DOMAIN c.messages :
              \E k \in CacheChannels : \E i \in 1..Len(Listed(c, k)) : Listed(c, k)[i] = mid

\* C32: with the MESSAGE resource enabled and message_cache_size = N, after any
\* sequence of MessageCreate updates each channel's list holds at most N ids, the
\* most recently created ones, newest first, and every evicted message has left
\* the message map.
C32_MessageWindow ==
    (wants(cache.c, "MESSAGE") /\ cache.creates_only) =>
        MessageWindow(cache.c, cache.created)

\* ------------------------------------------------------------------------
\* The Socket Forwarder's loop under a steady supply of outbound frames
\* ------------------------------------------------------------------------
\* The loop is the one of FwdSpec.  Its surroundings go on for ever: what the
\* socket transmitted and what the Shard took from the inbound channel is
\* forgotten, so the Sessions can keep the outbound channel supplied.

\* a Session puts a frame on the outbound channel, which holds up to MaxBusy
BusyEnqueue ==
    /\ fwd.task = "running"
    /\ fwd.rx.senders
    /\ Len(fwd.rx.q) < MaxBusy
    /\ Len(fwd.sent) < MaxRelay
    /\ fwd' = [fwd EXCEPT !.rx.q = Append(@, 1), !.sent = Append(@, 1)]
    /\ UNCHANGED <<shardvars, fnio, rate, beat, tasks, wire, lat, builder, cluster, cache,
                   voice, filter>>

\* the frames written to the socket were transmitted
BusyTransmitted ==
    /\ fwd.socket.written # <<>>
    /\ fwd' = [fwd EXCEPT !.socket.written = <<>>, !.sent = fwd.rx.q]
    /\ UNCHANGED <<shardvars, fnio, rate, beat, tasks, wire, lat, builder, cluster, cache,
                   voice, filter>>

\* the server's next frame arrives on the socket once the last one was read
BusySocketFrame ==
    /\ fwd.task = "running"
    /\ fwd.socket.state = "open"
    /\ fwd.socket.incoming = <<>>
    /\ Len(fwd.received) < MaxRelay
    /\ fwd' = [fwd EXCEPT !.socket.incoming = <<1>>, !.received = Append(@, 1)]
    /\ UNCHANGED <<shardvars, fnio, rate, beat, tasks, wire, lat, builder, cluster, cache,
                   voice, filter>>

\* the Shard took the frames of the inbound channel
BusyInboundTaken ==
    /\ fwd.tx.q # <<>>
    /\ fwd' = [fwd EXCEPT !.tx.q = <<>>, !.received = fwd.socket.incoming]
    /\ UNCHANGED <<shardvars, fnio, rate, beat, tasks, wire, lat, builder, cluster, cache,
                   voice, filter>>

BusyNext ==
    \/ BusyEnqueue \/ BusyTransmitted \/ BusySocketFrame \/ BusyInboundTaken
    \/ FwdSendersDropped \/ FwdReceiverDropped \/ FwdSocketDown \/ FwdTick
    \/ FwdLeftSome \/ FwdLeftNone \/ FwdRightSome \/ FwdRightDown \/ FwdTimeout

\* the loop is a task that is scheduled again whenever it can take a step
BusySpec == FwdInit /\ [][BusyNext]_vars /\ WF_vars(FwdIterate)

\* C37: neither direction of the Socket Forwarder starves the other: under
\* fair scheduling of the loop every frame the socket delivers is eventually
\* forwarded to the inbound channel (or the forwarder terminates), even while
\* the outbound channel has a frame ready at every iteration.
C37_NoStarvation ==
    (fwd.socket.incoming # <<>>) ~> (fwd.socket.incoming = <<>> \/ fwd.task = "done")

\* ------------------------------------------------------------------------
\* VoiceChannelStates (twilight-cache-inmemory/src/lib.rs)
\* ------------------------------------------------------------------------
\* the (guild, user) pairs that may be connected to the voice channel
VoicePairs == {<<1, u>> : u \in 1..MaxVoice}

\* the orders in which a HashSet with these elements may iterate
Orders(set) ==
    {o \in [1..Cardinality(set) -> set] : \A i, j \in DOMAIN o : i # j => o[i] # o[j]}

\* InMemoryCache::voice_channel_states: None for a channel without an entry,
\* otherwise the iterator at index 0 over the entry, which it keeps borrowed
voice_channel_states(voice_state_channels, channel_id, order) ==
    IF channel_id \notin DOMAIN voice_state_channels THEN None
    ELSE Some([index |-> 0, user_ids |-> order])

\* self.user_ids.iter().nth(self.index)
nth(user_ids, index) == IF index < Len(user_ids) THEN Some(user_ids[index + 1]) ELSE None

\* voice.iter is the iterator, voice.voice_states the keys of the cache's
\* voice_states map, voice.pc whether a call of next() is in progress
\* ("next"), returned an item ("idle") or returned None ("exhausted"), and
\* voice.yielded the pairs whose states next() returned
VoiceInit ==
    /\ ShardUnused
    /\ fnio = Unused /\ rate = Unused /\ beat = Unused /\ tasks = Unused
    /\ wire = Unused /\ lat = Unused /\ builder = Unused /\ cluster = Unused
    /\ fwd = Unused /\ cache = Unused /\ filter = Unused
    /\ \E set \in SUBSET VoicePairs : \E order \in Orders(set) :
          voice = [iter |-> unwrap(voice_channel_states([ch \in {1} |-> set], 1, order)),
                   voice_states |-> set, pc |-> "idle", yielded |-> <<>>]

\* the caller calls next()
VoiceCall ==
    /\ voice.pc = "idle"
    /\ voice' = [voice EXCEPT !.pc = "next"]
    /\ UNCHANGED <<shardvars, fnio, rate, beat, tasks, wire, lat, builder, cluster, fwd,
                   cache, filter>>

\* one pass of the while-let loop of next(): the pair at the index is looked
\* up; a pair with no entry leaves the index where it is and the loop goes on
VoiceLoop ==
    /\ voice.pc = "next"
    /\ LET pair == nth(voice.iter.user_ids, voice.iter.index)
       IN voice' = IF pair = None THEN [voice EXCEPT !.pc = "exhausted"]
                   ELSE IF unwrap(pair) \in voice.voice_states
                   THEN [voice EXCEPT !.iter.index = @ + 1,
                                      !.pc = "idle",
                                      !.yielded = Append(@, unwrap(pair))]
                   ELSE voice
    /\ UNCHANGED <<shardvars, fnio, rate, beat, tasks, wire, lat, builder, cluster, fwd,
                   cache, filter>>

\* another task updates the cache: the voice state of a pair is removed
VoiceStateRemoved ==
    /\ voice.pc # "exhausted"
    /\ \E pair \in voice.voice_states :
          voice' = [voice EXCEPT !.voice_states = @ \ {pair}]
    /\ UNCHANGED <<shardvars, fnio, rate, beat, tasks, wire, lat, builder, cluster, fwd,
                   cache, filter>>

VoiceNext == VoiceCall \/ VoiceLoop \/ VoiceStateRemoved

\* the task that iterates is scheduled
VoiceSpec == VoiceInit /\ [][VoiceNext]_vars /\ WF_vars(VoiceLoop)

\* C39: iterating VoiceChannelStates always terminates: every call of next()
\* returns, also when a listed (guild, user) pair has no entry in the
\* voice_states map because a concurrent update removed it.
C39_NextReturns == (voice.pc = "next") ~> (voice.pc # "next")

\* ---------------------------------------------------------------------------
\* EventTypeFlags (twilight-gateway/src/event.rs) and the event type filter.
\*
\* The flags are a u128 bit set.  A value is modelled as the set of the bit
\* positions that are set in it: `1 << n` is {n}, `a | b` is the union,
\* `contains` is the subset test and `remove` the set difference.
\* ---------------------------------------------------------------------------

bit(n) == {n}

bitor(a, b) == a \cup b

contains(flags, other) == other \subseteq flags

BAN_ADD == bit(0)

BAN_REMOVE == bit(1)

MESSAGE_CREATE == bit(19)

MESSAGE_DELETE == bit(20)

MESSAGE_DELETE_BULK == bit(21)

MESSAGE_UPDATE == bit(22)

PRESENCE_UPDATE == bit(23)

REACTION_ADD == bit(25)

REACTION_REMOVE == bit(26)

REACTION_REMOVE_ALL == bit(27)

REACTION_REMOVE_EMOJI == bit(48)

TYPING_START == bit(39)

SHARD_PAYLOAD == bit(45)

DIRECT_MESSAGES ==
    bitor(bitor(bitor(MESSAGE_CREATE, MESSAGE_DELETE), MESSAGE_DELETE_BULK),
          MESSAGE_UPDATE)

GUILD_BANS == bitor(BAN_ADD, BAN_REMOVE)

\* The third operand of the source is MESSAGE_DELETE a second time.
GUILD_MESSAGES ==
    bitor(bitor(bitor(MESSAGE_CREATE, MESSAGE_DELETE), MESSAGE_DELETE),
          MESSAGE_DELETE_BULK)

GUILD_MESSAGE_REACTIONS ==
    bitor(bitor(bitor(REACTION_ADD, REACTION_REMOVE), REACTION_REMOVE_ALL),
          REACTION_REMOVE_EMOJI)

GUILD_MESSAGE_TYPING == TYPING_START

GUILD_PRESENCES == PRESENCE_UPDATE

\* The event types of the model: the message family, one event of each other
\* intent group above, and the raw payload event.
EventTypes ==
    {"BanAdd", "BanRemove", "MessageCreate", "MessageDelete",
     "MessageDeleteBulk", "MessageUpdate", "PresenceUpdate", "ReactionAdd",
     "ReactionRemove", "ReactionRemoveAll", "ReactionRemoveEmoji",
     "ShardPayload", "TypingStart"}

\* impl From<EventType> for EventTypeFlags
EventTypeFlags_from(event_type) ==
    CASE event_type = "BanAdd" -> BAN_ADD
      [] event_type = "BanRemove" -> BAN_REMOVE
      [] event_type = "MessageCreate" -> MESSAGE_CREATE
      [] event_type = "MessageDelete" -> MESSAGE_DELETE
      [] event_type = "MessageDeleteBulk" -> MESSAGE_DELETE_BULK
      [] event_type = "MessageUpdate" -> MESSAGE_UPDATE
      [] event_type = "PresenceUpdate" -> PRESENCE_UPDATE
      [] event_type = "ReactionAdd" -> REACTION_ADD
      [] event_type = "ReactionRemove" -> REACTION_REMOVE
      [] event_type = "ReactionRemoveAll" -> REACTION_REMOVE_ALL
      [] event_type = "ReactionRemoveEmoji" -> REACTION_REMOVE_EMOJI
      [] event_type = "ShardPayload" -> SHARD_PAYLOAD
      [] event_type = "TypingStart" -> TYPING_START

\* EventTypeFlags::all() over the flags of the model.
EventTypeFlags_all == UNION {EventTypeFlags_from(t) : t \in EventTypes}

\* impl Default for EventTypeFlags: everything but SHARD_PAYLOAD.
EventTypeFlags_default == EventTypeFlags_all \ SHARD_PAYLOAD

\* The intent groups a caller combines into a filter.
IntentGroups ==
    {DIRECT_MESSAGES, GUILD_BANS, GUILD_MESSAGES, GUILD_MESSAGE_REACTIONS,
     GUILD_MESSAGE_TYPING, GUILD_PRESENCES, SHARD_PAYLOAD}

\* ShardBuilder::event_types: the builder keeps the flags it is given.
ShardBuilder_event_types(b, event_types) ==
    [b EXCEPT !.event_types = event_types]

\* The filter of the gateway's event stream: an event is deserialized and
\* emitted when its flag is contained in the configured event types; every
\* other event is discarded.
wanted(event_types, event_type) ==
    contains(event_types, EventTypeFlags_from(event_type))

FilterInit ==
    /\ ShardUnused
    /\ fnio = Unused /\ rate = Unused /\ beat = Unused /\ tasks = Unused
    /\ wire = Unused /\ lat = Unused /\ builder = Unused /\ cluster = Unused
    /\ fwd = Unused /\ cache = Unused /\ voice = Unused
    /\ filter = [config  |-> [event_types |-> EventTypeFlags_default],
                 event   |-> None,
                 emitted |-> FALSE]

\* The caller sets the filter to one intent group.
FilterSet ==
    /\ \E group \in IntentGroups :
          filter' = [filter EXCEPT
                       !.config = ShardBuilder_event_types(@, group),
                       !.event = None,
                       !.emitted = FALSE]
    /\ UNCHANGED <<shardvars, fnio, rate, beat, tasks, wire, lat, builder,
                   cluster, fwd, cache, voice>>

\* The caller adds one intent group to the filter.
FilterAdd ==
    /\ \E group \in IntentGroups :
          /\ ~contains(filter.config.event_types, group)
          /\ filter' = [filter EXCEPT
                          !.config = ShardBuilder_event_types(
                                         @, bitor(@.event_types, group)),
                          !.event = None,
                          !.emitted = FALSE]
    /\ UNCHANGED <<shardvars, fnio, rate, beat, tasks, wire, lat, builder,
                   cluster, fwd, cache, voice>>

\* An event of some type arrives and is tested against the filter.
FilterEvent ==
    /\ \E event_type \in EventTypes :
          filter' = [filter EXCEPT
                       !.event = Some(event_type),
                       !.emitted = wanted(filter.config.event_types,
                                          event_type)]
    /\ UNCHANGED <<shardvars, fnio, rate, beat, tasks, wire, lat, builder,
                   cluster, fwd, cache, voice>>

FilterNext == FilterSet \/ FilterAdd \/ FilterEvent

FilterSpec == FilterInit /\ [][FilterNext]_vars

\* C40: GUILD_MESSAGES contains MESSAGE_CREATE, MESSAGE_DELETE,
\* MESSAGE_DELETE_BULK and MESSAGE_UPDATE, the same set as DIRECT_MESSAGES, so
\* a filter set to GUILD_MESSAGES emits every message update that arrives.
C40_GuildMessagesComplete ==
    /\ contains(GUILD_MESSAGES, MESSAGE_CREATE)
    /\ contains(GUILD_MESSAGES, MESSAGE_DELETE)
    /\ contains(GUILD_MESSAGES, MESSAGE_DELETE_BULK)
    /\ (/\ filter.config.event_types = GUILD_MESSAGES
        /\ filter.event = Some("MessageUpdate"))
          => /\ contains(GUILD_MESSAGES, MESSAGE_UPDATE)
             /\ GUILD_MESSAGES = DIRECT_MESSAGES
             /\ filter.emitted

====
